---- MODULE Spec2Model ----
(***************************************************************************)
(* The daemon of wolfies-imessage: the NDJSON protocol codec               *)
(* (daemon/protocol.rs), the UNIX socket server (daemon/server.rs) and the *)
(* request dispatcher with its handlers (daemon/service.rs).               *)
(*                                                                         *)
(* A byte stream is a sequence of tokens (a JSON document, whitespace, a   *)
(* newline, bytes that are no JSON, bytes that are no UTF-8).  A 64-bit    *)
(* nanosecond value is kept in seconds where the code multiplies by 10^9   *)
(* last.                                                                   *)
(***************************************************************************)
EXTENDS Integers, Sequences, FiniteSets, TLC

VARIABLES
    pc,         \* where the server process is: start, cleaned, bound, accepting, reading, terminated, panicked
    env,        \* what the process never changes: build profile, clock
    sockFile,   \* the endpoint path: "absent", "stale" (a left-over file) or "socket"
    sockMode,   \* permission bits of the endpoint file
    backlog,    \* the listener's accept queue
    conns,      \* every connection, by the order in which it was made
    nconn,      \* number of connections made so far
    cur,        \* the connection handle_connection is working on, 0 when none
    acceptLog,  \* the connections in the order the server accepted them
    acceptErr,  \* whether the last accept() failed and was printed as an accept error
    service,    \* DaemonService: conn, contacts, started_at
    call,       \* the last direct call of a function: arguments and result
    client      \* the reference client: where DaemonClient::call is and what it returned

vars == <<pc, env, sockFile, sockMode, backlog, conns, nconn, cur, acceptLog,
          acceptErr, service, call, client>>

\* ------------------------------------------------------------------ bounds

MaxConns == 2

\* calls one client makes
MaxCalls == 2

\* ------------------------------------------------------- Option and Result

None == [some |-> FALSE]

Some(x) == [some |-> TRUE, v |-> x]

Ok(x) == [t |-> "Ok", v |-> x]

Err(e) == [t |-> "Err", e |-> e]

Panic == [t |-> "Panic"]

\* ------------------------------------------------ serde_json::Value (subset)

JNull == [t |-> "null"]

JBool(b) == [t |-> "bool", b |-> b]

JStr(s) == [t |-> "str", s |-> s]

\* Number::PosInt
JUInt(n) == [t |-> "uint", n |-> n]

\* Number::NegInt, n < 0
JNInt(n) == [t |-> "nint", n |-> n]

\* Number::Float, whole + frac/10
JFloat(w, f) == [t |-> "float", w |-> w, f |-> f]

JArr(s) == [t |-> "arr", a |-> s]

JObj(m) == [t |-> "obj", m |-> m]

\* a field that the document does not have
Absent == [t |-> "absent"]

EmptyMap == [k \in {} |-> JNull]

as_u64(v) == IF v.t = "uint" THEN Some(v.n) ELSE None

as_str(v) == IF v.t = "str" THEN Some(v.s) ELSE None

Get(params, key) == IF key \in DOMAIN params THEN Some(params[key]) ELSE None

and_then_as_u64(o) == IF o.some THEN as_u64(o.v) ELSE None

and_then_as_str(o) == IF o.some THEN as_str(o.v) ELSE None

unwrap_or(o, d) == IF o.some THEN o.v ELSE d

\* `x as u32`: the low 32 bits, taken in two 16-bit halves
AsU32(n) == ((n \div 65536) % 65536) * 65536 + (n % 65536)

\* ------------------------------------------------------------- row source

\* db/queries.rs: COCOA_EPOCH_OFFSET
COCOA_EPOCH_OFFSET == 978307200

\* The largest n for which n * 24 * 3600 * 1_000_000_000 fits an i64:
\* i64::MAX = 9223372036854775807 ns = 106751 days + 85636.854775807 s.
I64MaxWholeDays == 106751

\* days_ago_cocoa, in seconds: the code's last step multiplies by 10^9.
\* saturating_sub: 0 when days * 86400 exceeds now.
days_ago_cocoa(now, days) ==
    LET cutoff_unix == IF days > now \div 86400 THEN 0 ELSE now - days * 86400
    IN  [s |-> cutoff_unix - COCOA_EPOCH_OFFSET]

\* The rows a statement yields are the row source's business; a result is
\* named by the statement and its bound parameters.
Rows(q, args) == [q |-> q, args |-> args]

\* conn.prepare(q)? followed by query_map/query_row: prepare fails when the
\* row source does not answer.
Query(ok, q, args) == IF ok THEN Ok(Rows(q, args)) ELSE Err([sqlite |-> q])

\* whether the row source answers statement q of a request: e.dbOk when it
\* answers at all, e.broken the statements it fails on
Answers(e, q) == e.dbOk /\ q \notin e.broken

query_recent_messages(ok, cutoff, limit) == Query(ok, "RECENT_MESSAGES", <<cutoff, limit>>)

query_unread_messages(ok, limit) == Query(ok, "UNREAD_MESSAGES", <<limit>>)

query_message_counts(ok, cutoff, phone) == Query(ok, "ANALYTICS_MESSAGE_COUNTS", <<cutoff, phone>>)

query_busiest_hour(ok, cutoff, phone) == Query(ok, "ANALYTICS_BUSIEST_HOUR", <<cutoff, phone>>)

query_busiest_day(ok, cutoff, phone) == Query(ok, "ANALYTICS_BUSIEST_DAY", <<cutoff, phone>>)

query_top_contacts(ok, cutoff) == Query(ok, "ANALYTICS_TOP_CONTACTS", <<cutoff>>)

query_attachments(ok, cutoff, phone) == Query(ok, "ANALYTICS_ATTACHMENTS_FAST", <<cutoff, phone>>)

query_reactions(ok, cutoff, phone) == Query(ok, "ANALYTICS_REACTIONS", <<cutoff, phone>>)

query_handles(ok, cutoff, limit) == Query(ok, "DISCOVERY_HANDLES", <<cutoff, limit>>)

query_unknown_senders(ok, cutoff) == Query(ok, "DISCOVERY_UNKNOWN", <<cutoff>>)

query_unanswered_questions(ok, cutoff, stale_ns) ==
    Query(ok, "FOLLOWUP_UNANSWERED_QUESTIONS", <<cutoff, stale_ns>>)

query_stale_conversations(ok, cutoff, stale_ns) ==
    Query(ok, "FOLLOWUP_STALE_CONVERSATIONS", <<cutoff, stale_ns>>)

\* ---------------------------------------------------------------- contacts

\* A name or a phone is a String: the sequence of its characters.

\* char::to_lowercase, for ASCII, Latin-1 and U+0130, whose lower case is
\* two characters; the names of the model hold no other cased character
char_to_lowercase(ch) ==
    IF ch \in 65..90 \/ ch \in 192..214 \/ ch \in 216..222 THEN <<ch + 32>>
    ELSE IF ch = 304 THEN <<105, 775>>
    ELSE <<ch>>

\* str::to_lowercase
RECURSIVE to_lowercase(_)
to_lowercase(s) ==
    IF s = <<>> THEN <<>> ELSE char_to_lowercase(Head(s)) \o to_lowercase(Tail(s))

\* a lookup that takes the beginning of a name for the name
RECURSIVE find_by_name_prefix_from(_, _, _)
find_by_name_prefix_from(contacts, i, name_lower) ==
    IF i > Len(contacts) THEN None
    ELSE IF SubSeq(to_lowercase(contacts[i].name), 1, Len(name_lower)) = name_lower
         THEN Some(contacts[i])
    ELSE find_by_name_prefix_from(contacts, i + 1, name_lower)

find_by_name_prefix(contacts, name) ==
    find_by_name_prefix_from(contacts, 1, to_lowercase(name))

RECURSIVE find_by_name_from(_, _, _)
find_by_name_from(contacts, i, name_lower) ==
    IF i > Len(contacts) THEN None
    ELSE IF to_lowercase(contacts[i].name) = name_lower THEN Some(contacts[i])
    ELSE find_by_name_from(contacts, i + 1, name_lower)

find_by_name(contacts, name) == find_by_name_from(contacts, 1, to_lowercase(name))

\* ------------------------------------------------------------ str::trim
\* A String is the sequence of its characters.

\* char::is_whitespace
is_whitespace(ch) ==
    \/ ch \in 9..13
    \/ ch \in {32, 133, 160, 5760, 8232, 8233, 8239, 8287, 12288}
    \/ ch \in 8192..8202

RECURSIVE str_trim_start(_)
str_trim_start(s) ==
    IF s # <<>> /\ is_whitespace(Head(s)) THEN str_trim_start(Tail(s)) ELSE s

RECURSIVE str_trim_end(_)
str_trim_end(s) ==
    IF s # <<>> /\ is_whitespace(s[Len(s)])
    THEN str_trim_end(SubSeq(s, 1, Len(s) - 1))
    ELSE s

\* str::trim on a String
str_trim(s) == str_trim_end(str_trim_start(s))

\* ------------------------------------------------------------ DaemonService

\* A handler's outcome: its Result (or a panic) and the number of statements
\* it prepared on the row source.
Out(res, nq) == [res |-> res, nq |-> nq]

\* a parameter read with unwrap_or_default() in place of the named default
ParamU32_zero_default(params, key, default) ==
    AsU32(unwrap_or(and_then_as_u64(Get(params, key)), 0))

\* .get(key).and_then(|v| v.as_u64()).unwrap_or(default) as u32
ParamU32(params, key, default) ==
    AsU32(unwrap_or(and_then_as_u64(Get(params, key)), default))

\* contact enrichment of the rows of a result
Enrich(svc, rows) == [rows |-> rows, contacts |-> svc.contacts]

RowCount(rows) == [len |-> rows]

\* a health check that counts the contacts with a query on the row source
health_counting_contacts(svc) ==
    Out(Ok(JObj([pid |-> svc.pid,
                 started_at |-> JStr(svc.started_at),
                 version |-> JStr("v1"),
                 contacts_loaded |-> JUInt(Len(svc.contacts))])), 1)

health(svc) ==
    Out(Ok(JObj([pid |-> svc.pid,
                 started_at |-> JStr(svc.started_at),
                 version |-> JStr("v1"),
                 contacts_loaded |-> JUInt(Len(svc.contacts))])), 0)

recent(svc, params, e) ==
    LET days == ParamU32(params, "days", 7)
        limit == ParamU32(params, "limit", 20)
        cutoff_cocoa == days_ago_cocoa(e.now, days)
        messages == query_recent_messages(Answers(e, "RECENT_MESSAGES"), cutoff_cocoa, limit)
    IN  IF messages.t = "Err" THEN Out(messages, 1)
        ELSE Out(Ok(JObj([messages |-> Enrich(svc, messages.v),
                          count |-> RowCount(messages.v),
                          days |-> JUInt(days)])), 1)

unread(svc, params, e) ==
    LET limit == ParamU32(params, "limit", 50)
        messages == query_unread_messages(Answers(e, "UNREAD_MESSAGES"), limit)
    IN  IF messages.t = "Err" THEN Out(messages, 1)
        ELSE Out(Ok(JObj([unread_count |-> RowCount(messages.v),
                          messages |-> Enrich(svc, messages.v)])), 1)

analytics(svc, params, e) ==
    LET contact == and_then_as_str(Get(params, "contact"))
        days == ParamU32(params, "days", 30)
        found == IF contact.some THEN find_by_name(svc.contacts, contact.v) ELSE None
        phone == IF found.some THEN Some(found.v.phone) ELSE None
        cutoff_cocoa == days_ago_cocoa(e.now, days)
        counts == query_message_counts(Answers(e, "ANALYTICS_MESSAGE_COUNTS"), cutoff_cocoa, phone)
        busiest_hour == query_busiest_hour(Answers(e, "ANALYTICS_BUSIEST_HOUR"), cutoff_cocoa, phone)
        busiest_day == query_busiest_day(Answers(e, "ANALYTICS_BUSIEST_DAY"), cutoff_cocoa, phone)
        top_contacts == IF ~phone.some THEN query_top_contacts(Answers(e, "ANALYTICS_TOP_CONTACTS"), cutoff_cocoa)
                        ELSE Ok(<<>>)
        attachment_count == query_attachments(Answers(e, "ANALYTICS_ATTACHMENTS_FAST"), cutoff_cocoa, phone)
        reaction_count == query_reactions(Answers(e, "ANALYTICS_REACTIONS"), cutoff_cocoa, phone)
    IN  IF counts.t = "Err" THEN Out(counts, 1)
        ELSE IF busiest_hour.t = "Err" THEN Out(busiest_hour, 2)
        ELSE IF busiest_day.t = "Err" THEN Out(busiest_day, 3)
        ELSE IF top_contacts.t = "Err" THEN Out(top_contacts, 4)
        ELSE IF attachment_count.t = "Err" THEN Out(attachment_count, IF phone.some THEN 4 ELSE 5)
        ELSE IF reaction_count.t = "Err" THEN Out(reaction_count, IF phone.some THEN 5 ELSE 6)
        ELSE Out(Ok(JObj([period_days |-> JUInt(days),
                          counts |-> counts.v,
                          busiest_hour |-> busiest_hour.v,
                          busiest_day |-> busiest_day.v,
                          top_contacts |-> Enrich(svc, top_contacts.v),
                          attachment_count |-> attachment_count.v,
                          reaction_count |-> reaction_count.v])),
                 IF phone.some THEN 5 ELSE 6)

\* (stale as i64) * 24 * 3600 * 1_000_000_000: a build with overflow checks
\* panics when the product leaves i64, a build without them wraps.
stale_threshold_ns(stale, e) ==
    IF stale > I64MaxWholeDays
    THEN IF e.overflowChecks THEN Panic ELSE Ok([days |-> stale, wrapped |-> TRUE])
    ELSE Ok([days |-> stale, wrapped |-> FALSE])

followup(svc, params, e) ==
    LET days == ParamU32(params, "days", 30)
        stale == ParamU32(params, "stale", 3)
        cutoff_cocoa == days_ago_cocoa(e.now, days)
        threshold == stale_threshold_ns(stale, e)
        unanswered == query_unanswered_questions(Answers(e, "FOLLOWUP_UNANSWERED_QUESTIONS"), cutoff_cocoa, threshold.v)
        stale_convos == query_stale_conversations(Answers(e, "FOLLOWUP_STALE_CONVERSATIONS"), cutoff_cocoa, threshold.v)
    IN  IF threshold.t = "Panic" THEN Out(Panic, 0)
        ELSE IF unanswered.t = "Err" THEN Out(unanswered, 1)
        ELSE IF stale_convos.t = "Err" THEN Out(stale_convos, 2)
        ELSE Out(Ok(JObj([unanswered_questions |-> Enrich(svc, unanswered.v),
                          stale_conversations |-> Enrich(svc, stale_convos.v),
                          total_items |-> <<RowCount(unanswered.v), RowCount(stale_convos.v)>>])), 2)

handles(svc, params, e) ==
    LET days == ParamU32(params, "days", 30)
        limit == ParamU32(params, "limit", 50)
        cutoff_cocoa == days_ago_cocoa(e.now, days)
        rows == query_handles(Answers(e, "DISCOVERY_HANDLES"), cutoff_cocoa, limit)
    IN  IF rows.t = "Err" THEN Out(rows, 1)
        ELSE Out(Ok(JObj([handles |-> Enrich(svc, rows.v), count |-> RowCount(rows.v)])), 1)

unknown(svc, params, e) ==
    LET days == ParamU32(params, "days", 30)
        limit == ParamU32(params, "limit", 20)
        cutoff_cocoa == days_ago_cocoa(e.now, days)
        all_senders == query_unknown_senders(Answers(e, "DISCOVERY_UNKNOWN"), cutoff_cocoa)
    IN  IF all_senders.t = "Err" THEN Out(all_senders, 1)
        ELSE Out(Ok(JObj([unknown_senders |-> [take |-> limit, of |-> Enrich(svc, all_senders.v)]])), 1)

discover(svc, params, e) ==
    LET days == ParamU32(params, "days", 90)
        min_messages == unwrap_or(and_then_as_u64(Get(params, "min_messages")), 3)
        cutoff_cocoa == days_ago_cocoa(e.now, days)
        all_senders == query_unknown_senders(Answers(e, "DISCOVERY_UNKNOWN"), cutoff_cocoa)
    IN  IF all_senders.t = "Err" THEN Out(all_senders, 1)
        ELSE Out(Ok(JObj([discovery_candidates |->
                              [at_least |-> min_messages, of |-> Enrich(svc, all_senders.v)],
                          criteria |-> [days |-> JUInt(days), min_messages |-> JUInt(min_messages)]])), 1)

\* serde_json::Map::insert
Insert(m, key, val) == [k \in DOMAIN m \cup {key} |-> IF k = key THEN val ELSE m[k]]

\* the section names of bundle

\* "unread_count"
SectionUnreadCount ==
    <<117, 110, 114, 101, 97, 100, 95, 99, 111, 117, 110, 116>>

\* "recent"
SectionRecent == <<114, 101, 99, 101, 110, 116>>

\* "analytics"
SectionAnalytics == <<97, 110, 97, 108, 121, 116, 105, 99, 115>>

\* "followup_count"
SectionFollowupCount ==
    <<102, 111, 108, 108, 111, 119, 117, 112, 95, 99, 111, 117, 110, 116>>

\* one arm of bundle's match: the map after the section, or the first failure
bundle_section(svc, params, e, section, result) ==
    CASE section = SectionUnreadCount ->
           LET r == query_unread_messages(Answers(e, "UNREAD_MESSAGES"), 100)
           IN  IF r.t = "Err" THEN Out(r, 1)
               ELSE Out(Ok(Insert(result, "unread_count", RowCount(r.v))), 1)
      [] section = SectionRecent ->
           LET limit == ParamU32(params, "recent_limit", 10)
               days == ParamU32(params, "recent_days", 7)
               r == query_recent_messages(Answers(e, "RECENT_MESSAGES"), days_ago_cocoa(e.now, days), limit)
           IN  IF r.t = "Err" THEN Out(r, 1)
               ELSE Out(Ok(Insert(result, "recent", Enrich(svc, r.v))), 1)
      [] section = SectionAnalytics ->
           LET days == ParamU32(params, "analytics_days", 30)
               r == query_message_counts(Answers(e, "ANALYTICS_MESSAGE_COUNTS"), days_ago_cocoa(e.now, days), None)
           IN  IF r.t = "Err" THEN Out(r, 1)
               ELSE Out(Ok(Insert(result, "analytics",
                                  [counts |-> r.v, period_days |-> JUInt(days)])), 1)
      [] section = SectionFollowupCount ->
           LET days == ParamU32(params, "followup_days", 30)
               stale == ParamU32(params, "followup_stale", 3)
               cutoff == days_ago_cocoa(e.now, days)
               stale_ns == stale_threshold_ns(stale, e)
               unanswered == query_unanswered_questions(Answers(e, "FOLLOWUP_UNANSWERED_QUESTIONS"), cutoff, stale_ns.v)
               stale_convos == query_stale_conversations(Answers(e, "FOLLOWUP_STALE_CONVERSATIONS"), cutoff, stale_ns.v)
           IN  IF stale_ns.t = "Panic" THEN Out(Panic, 0)
               ELSE IF unanswered.t = "Err" THEN Out(unanswered, 1)
               ELSE IF stale_convos.t = "Err" THEN Out(stale_convos, 2)
               ELSE Out(Ok(Insert(result, "followup_count",
                                  <<RowCount(unanswered.v), RowCount(stale_convos.v)>>)), 2)
      [] OTHER -> Out(Ok(result), 0)

\* bundle returning what it has when a statement fails
RECURSIVE bundle_loop_partial(_, _, _, _, _, _, _)
bundle_loop_partial(svc, params, e, sections, i, result, nq) ==
    IF i > Len(sections) THEN Out(Ok(JObj(result)), nq)
    ELSE LET o == bundle_section(svc, params, e, sections[i], result)
         IN  IF o.res.t = "Ok"
             THEN bundle_loop_partial(svc, params, e, sections, i + 1, o.res.v, nq + o.nq)
             ELSE IF o.res.t = "Panic" THEN Out(o.res, nq + o.nq)
             ELSE Out(Ok(JObj(result)), nq + o.nq)

RECURSIVE bundle_loop(_, _, _, _, _, _, _)
bundle_loop(svc, params, e, sections, i, result, nq) ==
    IF i > Len(sections) THEN Out(Ok(JObj(result)), nq)
    ELSE LET o == bundle_section(svc, params, e, sections[i], result)
         IN  IF o.res.t = "Ok"
             THEN bundle_loop(svc, params, e, sections, i + 1, o.res.v, nq + o.nq)
             ELSE Out(o.res, nq + o.nq)

\* "unread_count,recent"
DefaultInclude ==
    <<117, 110, 114, 101, 97, 100, 95, 99, 111, 117, 110, 116, 44, 114, 101,
      99, 101, 110, 116>>

\* include.split(','): the pieces between the commas, one more than commas
split_commas(include) ==
    LET is_comma(i) == include[i] = 44
        commas == <<0>> \o SelectSeq([i \in 1..Len(include) |-> i], is_comma)
                       \o <<Len(include) + 1>>
    IN  [n \in 1..(Len(commas) - 1) |-> SubSeq(include, commas[n] + 1, commas[n + 1] - 1)]

\* bundle taking the comma-separated items as they stand
bundle_untrimmed(svc, params, e) ==
    LET include == unwrap_or(and_then_as_str(Get(params, "include")), DefaultInclude)
    IN  bundle_loop(svc, params, e, split_commas(include), 1, EmptyMap, 0)

bundle(svc, params, e) ==
    LET include == unwrap_or(and_then_as_str(Get(params, "include")), DefaultInclude)
        pieces == split_commas(include)
        sections == [n \in 1..Len(pieces) |-> str_trim(pieces[n])]
    IN  bundle_loop(svc, params, e, sections, 1, EmptyMap, 0)

UnknownMethodError(method) == [msg |-> "Unknown method: ", arg |-> method]

dispatch(svc, method, params, e) ==
    CASE method = "health" -> health(svc)
      [] method = "analytics" -> analytics(svc, params, e)
      [] method = "followup" -> followup(svc, params, e)
      [] method = "recent" -> recent(svc, params, e)
      [] method = "unread" -> unread(svc, params, e)
      [] method = "discover" -> discover(svc, params, e)
      [] method = "unknown" -> unknown(svc, params, e)
      [] method = "handles" -> handles(svc, params, e)
      [] method = "bundle" -> bundle(svc, params, e)
      [] OTHER -> Out(Err(UnknownMethodError(method)), 0)

\* ------------------------------------------------------------ byte streams

TNl == [k |-> "nl"]

TWs == [k |-> "ws"]

\* text that is no JSON value
TJunk == [k |-> "junk"]

\* bytes that are no UTF-8
TBadUtf8 == [k |-> "badutf8"]

\* the text of one JSON value
TDoc(d) == [k |-> "doc", d |-> d]

IsSpace(tok) == tok.k \in {"ws", "nl"}

RECURSIVE first_nl(_, _)
first_nl(s, i) ==
    IF i > Len(s) THEN 0
    ELSE IF s[i].k = "nl" THEN i
    ELSE first_nl(s, i + 1)

\* a read_line that waits for a newline even at the end of the stream
ReadReady_line_only(c) == first_nl(c.tx, 1) > 0

\* BufRead::read_line returns once the stream holds a newline or has ended
ReadReady(c) == c.eof \/ first_nl(c.tx, 1) > 0

\* BufRead::read_line: the bytes up to and including the first newline (all of
\* them at end of stream); InvalidData when they are no UTF-8.
read_line(tx) ==
    LET n == first_nl(tx, 1)
        line == IF n = 0 THEN tx ELSE SubSeq(tx, 1, n)
    IN  IF \E i \in 1..Len(line) : line[i].k = "badutf8"
        THEN Err("InvalidData")
        ELSE Ok(line)

RECURSIVE trim_start(_)
trim_start(s) == IF s # <<>> /\ IsSpace(Head(s)) THEN trim_start(Tail(s)) ELSE s

RECURSIVE trim_end(_)
trim_end(s) ==
    IF s # <<>> /\ IsSpace(s[Len(s)]) THEN trim_end(SubSeq(s, 1, Len(s) - 1)) ELSE s

\* str::trim
trim(s) == trim_end(trim_start(s))

\* ----------------------------------------------------------- protocol.rs

\* Request::from_ndjson_line: serde_json::from_str into the derived
\* Deserialize of Request {id: String, v: u8, method: String, params: HashMap}.
from_ndjson_line(line) ==
    LET body == trim(line)
    IN  IF Len(body) = 1 /\ body[1].k = "doc"
           /\ body[1].d.id.t = "str"
           /\ body[1].d.v.t = "uint" /\ body[1].d.v.n <= 255
           /\ body[1].d.method.t = "str"
           /\ body[1].d.params.t = "obj"
        THEN Ok([id |-> body[1].d.id.s, v |-> body[1].d.v.n,
                 method |-> body[1].d.method.s, params |-> body[1].d.params.m])
        ELSE Err("Failed to parse request JSON")

\* a success response that also fills the error in
Response_success_with_error(id, result, server_ms) ==
    [id |-> id, ok |-> TRUE, result |-> Some(result),
     error |-> Some([code |-> "OK", message |-> "", details |-> None]),
     meta |-> [server_ms |-> server_ms, protocol_v |-> 1]]

Response_success(id, result, server_ms) ==
    [id |-> id, ok |-> TRUE, result |-> Some(result), error |-> None,
     meta |-> [server_ms |-> server_ms, protocol_v |-> 1]]

\* an error response that loses the request id
Response_error_blank_id(id, code, message, server_ms) ==
    [id |-> "", ok |-> FALSE, result |-> None,
     error |-> Some([code |-> code, message |-> message, details |-> None]),
     meta |-> [server_ms |-> server_ms, protocol_v |-> 1]]

Response_error(id, code, message, server_ms) ==
    [id |-> id, ok |-> FALSE, result |-> None,
     error |-> Some([code |-> code, message |-> message, details |-> None]),
     meta |-> [server_ms |-> server_ms, protocol_v |-> 1]]

\* derived Serialize of Option<T>: None is written as null
SerOption(o) == IF o.some THEN o.v ELSE JNull

\* derived Deserialize of Option<T>: null is read as None
DeOption(j) == IF j = JNull THEN None ELSE Some(j)

\* Response::to_ndjson_line: serde_json::to_string, then "\n"
to_ndjson_line(resp) ==
    <<TDoc([id |-> JStr(resp.id),
            ok |-> JBool(resp.ok),
            result |-> SerOption(resp.result),
            error |-> IF resp.error.some
                      THEN JObj([code |-> JStr(resp.error.v.code),
                                 message |-> JStr(resp.error.v.message),
                                 details |-> SerOption(resp.error.v.details)])
                      ELSE JNull,
            meta |-> JObj([server_ms |-> resp.meta.server_ms,
                           protocol_v |-> JUInt(resp.meta.protocol_v)])]),
      TNl>>

\* the derived Deserialize of Response, applied to a line the server wrote
Response_from_line(line) ==
    LET d == trim(line)[1].d
    IN  [id |-> d.id.s, ok |-> d.ok.b,
         result |-> DeOption(d.result),
         error |-> IF d.error = JNull THEN None
                   ELSE Some([code |-> d.error.m.code.s,
                              message |-> d.error.m.message.s,
                              details |-> DeOption(d.error.m.details)]),
         meta |-> [server_ms |-> d.meta.m.server_ms, protocol_v |-> d.meta.m.protocol_v.n]]

\* ------------------------------------------------------- endpoint file mode

Bit(mode, b) == (mode \div b) % 2 = 1

RECURSIVE and_not(_, _, _)
and_not(mode, mask, b) ==
    IF b > 256 THEN 0
    ELSE (IF Bit(mode, b) /\ ~Bit(mask, b) THEN b ELSE 0) + and_not(mode, mask, 2 * b)

\* bind(2) creates the socket file with mode 0777 & ~umask
BindMode(umask) == and_not(511, umask, 1)

\* no permission bit for group or others
OwnerOnly(mode) == mode % 64 = 0

\* connect(2) needs write permission on the socket file
MayConnect(mode) == Bit(mode, 128) \/ Bit(mode, 16) \/ Bit(mode, 2)

\* umask values a daemon is started under: 000 and 077
Umasks == {0, 63}

\* ------------------------------------------------------------- connections

NoConn ==
    [st |-> "idle", modeAtConnect |-> 0,
     tx |-> <<>>, sent |-> FALSE, eof |-> FALSE, reads |-> FALSE, hungup |-> FALSE,
     rx |-> <<>>,
     line |-> None, req |-> None, ndispatch |-> 0, nq |-> 0, err |-> 0, outcome |-> "none"]

\* start.elapsed().as_secs_f64() * 1000.0
ElapsedMs == {JFloat(0, 3)}

\* ----------------------------------------------------------------- server.rs

\* a test that never takes a line for a disconnect
is_client_disconnected_never(line) == FALSE

\* line.trim().is_empty()
is_client_disconnected(line) == trim(line) = <<>>

\* handle_connection, lines 91-104: the response to a dispatched request
response_of(id, res, ms) ==
    IF res.t = "Ok" THEN Response_success(id, res.v, ms)
    ELSE Response_error(id, "ERROR", res.e, ms)

\* handle_connection from read_line on (lines 78-112): what becomes of the
\* connection (err: serve prints a connection error for it) and whether the
\* process panicked.  e.dbOk: whether the row source answers this request's
\* statements; wok: whether write_all/flush succeed.
handle_connection(c, svc, e, ms, wok) ==
    LET rd == read_line(c.tx)
        closed == [c EXCEPT !.st = "closed"]
    IN  IF rd.t = "Err"
        THEN [conn |-> [closed EXCEPT !.outcome = "read_err", !.err = 1], panic |-> FALSE]
        ELSE IF is_client_disconnected(rd.v)
        THEN [conn |-> [closed EXCEPT !.line = Some(rd.v), !.outcome = "empty"],
              panic |-> FALSE]
        ELSE LET request == from_ndjson_line(rd.v)
             IN  IF request.t = "Err"
                 THEN [conn |-> [closed EXCEPT !.line = Some(rd.v), !.outcome = "decode_err",
                                               !.err = 1],
                       panic |-> FALSE]
                 ELSE LET o == dispatch(svc, request.v.method, request.v.params, e)
                          response == response_of(request.v.id, o.res, ms)
                          done == [closed EXCEPT !.line = Some(rd.v),
                                                 !.req = Some(request.v),
                                                 !.ndispatch = c.ndispatch + 1,
                                                 !.nq = c.nq + o.nq]
                      IN  IF o.res.t = "Panic"
                          THEN [conn |-> [done EXCEPT !.outcome = "panic"], panic |-> TRUE]
                          ELSE IF wok
                          THEN [conn |-> [done EXCEPT !.rx = c.rx \o to_ndjson_line(response),
                                                      !.outcome = "responded"],
                                panic |-> FALSE]
                          ELSE [conn |-> [done EXCEPT !.outcome = "write_err", !.err = 1],
                                panic |-> FALSE]

\* serve, line 38: let _ = remove_file(socket_path)
RemoveStale ==
    /\ pc = "start"
    /\ \E removed \in BOOLEAN :
          sockFile' = IF removed THEN "absent" ELSE sockFile
    /\ pc' = "cleaned"
    /\ UNCHANGED <<env, sockMode, backlog, conns, nconn, cur, acceptLog, acceptErr,
                   service, call, client>>

\* serve, line 40: UnixListener::bind(socket_path)?
Bind ==
    /\ pc = "cleaned"
    /\ IF sockFile = "absent"
       THEN /\ sockFile' = "socket"
            /\ \E umask \in Umasks : sockMode' = BindMode(umask)
            /\ pc' = "bound"
       ELSE /\ pc' = "terminated"
            /\ UNCHANGED <<sockFile, sockMode>>
    /\ UNCHANGED <<env, backlog, conns, nconn, cur, acceptLog, acceptErr, service, call, client>>

\* serve, lines 43-52: set_permissions(socket_path, 0o600)?
SetPermissions ==
    /\ pc = "bound"
    /\ \E ok \in BOOLEAN :
          IF ok
          THEN sockMode' = 384 /\ pc' = "accepting"
          ELSE sockMode' = sockMode /\ pc' = "terminated"
    /\ UNCHANGED <<env, sockFile, backlog, conns, nconn, cur, acceptLog, acceptErr,
                   service, call, client>>

\* an accept loop that takes the next stream while a connection is still
\* being handled (a handler thread per connection)
AcceptWhileBusy ==
    /\ pc \in {"accepting", "reading"}
    /\ backlog # <<>>
    /\ LET c == Head(backlog)
       IN  /\ backlog' = Tail(backlog)
           /\ acceptLog' = Append(acceptLog, c)
           /\ acceptErr' = FALSE
           /\ conns' = [conns EXCEPT ![c].st = "accepted"]
           /\ cur' = c
           /\ pc' = "reading"
    /\ UNCHANGED <<env, sockFile, sockMode, nconn, service, call, client>>

\* serve, lines 55-58 and handle_connection, lines 74-76: the next stream of
\* listener.incoming(), then try_clone()?
Accept ==
    /\ pc = "accepting"
    /\ backlog # <<>>
    /\ LET c == Head(backlog)
       IN  /\ backlog' = Tail(backlog)
           /\ acceptLog' = Append(acceptLog, c)
           /\ acceptErr' = FALSE
           /\ \E cloned \in BOOLEAN :
                 IF cloned
                 THEN /\ conns' = [conns EXCEPT ![c].st = "accepted"]
                      /\ cur' = c
                      /\ pc' = "reading"
                 ELSE /\ conns' = [conns EXCEPT ![c].st = "closed", ![c].outcome = "clone_err",
                                                ![c].err = 1]
                      /\ cur' = 0
                      /\ pc' = "accepting"
    /\ UNCHANGED <<env, sockFile, sockMode, nconn, service, call, client>>

\* serve, lines 62-64: accept failed
AcceptError ==
    /\ pc = "accepting"
    /\ acceptErr' = TRUE
    /\ UNCHANGED <<pc, env, sockFile, sockMode, backlog, conns, nconn, cur, acceptLog,
                   service, call, client>>

\* a handler that reloads the contact table after every request
HandleConnectionReloading ==
    /\ pc = "reading"
    /\ ReadReady(conns[cur])
    /\ \E wok \in BOOLEAN, dbOk \in BOOLEAN, ms \in ElapsedMs :
          LET o == handle_connection(conns[cur], service,
                       [dbOk |-> dbOk, broken |-> {}, overflowChecks |-> env.overflowChecks, now |-> env.now],
                       ms, wok)
          IN  /\ conns' = [conns EXCEPT ![cur] = o.conn]
              /\ pc' = IF o.panic THEN "panicked" ELSE "accepting"
    /\ cur' = 0
    /\ service' = [service EXCEPT !.contacts = <<>>]
    /\ UNCHANGED <<env, sockFile, sockMode, backlog, nconn, acceptLog, acceptErr, call, client>>

\* handle_connection, lines 78-112, and the return to the loop of serve
HandleConnection ==
    /\ pc = "reading"
    /\ ReadReady(conns[cur])
    /\ \E wok \in BOOLEAN, dbOk \in BOOLEAN, ms \in ElapsedMs :
          LET o == handle_connection(conns[cur], service,
                       [dbOk |-> dbOk, broken |-> {}, overflowChecks |-> env.overflowChecks, now |-> env.now],
                       ms, wok)
          IN  /\ conns' = [conns EXCEPT ![cur] = o.conn]
              /\ pc' = IF o.panic THEN "panicked" ELSE "accepting"
    /\ cur' = 0
    /\ UNCHANGED <<env, sockFile, sockMode, backlog, nconn, acceptLog, acceptErr,
                   service, call, client>>

\* ------------------------------------------------------------- environment

\* a client calls connect(2) on the endpoint
ClientConnect ==
    /\ nconn < MaxConns
    /\ pc \in {"bound", "accepting", "reading"}
    /\ sockFile = "socket"
    /\ MayConnect(sockMode)
    /\ nconn' = nconn + 1
    /\ conns' = [conns EXCEPT ![nconn + 1] =
                     [NoConn EXCEPT !.st = "queued", !.modeAtConnect = sockMode]]
    /\ backlog' = Append(backlog, nconn + 1)
    /\ UNCHANGED <<pc, env, sockFile, sockMode, cur, acceptLog, acceptErr, service, call, client>>

\* a client writes to its stream
ClientSend(c, m) ==
    /\ conns[c].st \in {"queued", "accepted"}
    /\ ~conns[c].sent
    /\ ~conns[c].eof
    /\ conns' = [conns EXCEPT ![c].tx = m, ![c].sent = TRUE]
    /\ UNCHANGED <<pc, env, sockFile, sockMode, backlog, nconn, cur, acceptLog, acceptErr,
                   service, call, client>>

\* a client shuts its stream down before it has sent a whole line
ClientShutdown(c) ==
    /\ conns[c].st \in {"queued", "accepted"}
    /\ ~conns[c].eof
    /\ first_nl(conns[c].tx, 1) = 0
    /\ conns' = [conns EXCEPT ![c].eof = TRUE]
    /\ UNCHANGED <<pc, env, sockFile, sockMode, backlog, nconn, cur, acceptLog, acceptErr,
                   service, call, client>>

\* -------------------------------------------------------- what clients send

ReqDoc(id, v, method, params) == [id |-> id, v |-> v, method |-> method, params |-> params]

\* {"id": id, "v": 1, "method": method, "params": params} and a newline
ReqLine(id, method, params) == <<TDoc(ReqDoc(JStr(id), JUInt(1), JStr(method), JObj(params))), TNl>>

WellFormed ==
    { ReqLine("id-a", "health", EmptyMap),
      ReqLine("id-b", "recent", [k \in {"limit"} |-> JNInt(-5)]),
      ReqLine("id-a", "followup", [k \in {"stale"} |-> JUInt(106752)]),
      ReqLine("id-b", "no-such-method", EmptyMap) }

Malformed ==
    { <<TDoc(ReqDoc(JStr("id-a"), JUInt(1), Absent, JObj(EmptyMap))), TNl>>,
      <<TJunk, TNl>>,
      <<TBadUtf8, TNl>>,
      <<TWs, TNl>> }

\* two requests in one write
Framing ==
    { ReqLine("id-b", "health", EmptyMap) \o ReqLine("id-a", "unread", EmptyMap) }

ClientMessages == WellFormed \cup Malformed \cup Framing

\* ------------------------------------------------- rust_client/client.rs

\* ClientError, by variant
SocketNotFound(path) == [variant |-> "SocketNotFound", path |-> path]

\* ConnectionFailed(#[from] std::io::Error): what `?` makes of an io::Error
ConnectionFailed(kind) == [variant |-> "ConnectionFailed", kind |-> kind]

ParseError == [variant |-> "ParseError"]

EmptyResponse == [variant |-> "EmptyResponse"]

Timeout == [variant |-> "Timeout"]

\* DaemonClient::format_client_error: the code of the error object
format_client_error(err) ==
    CASE err.variant = "SocketNotFound" -> "DAEMON_NOT_RUNNING"
      [] err.variant = "ConnectionFailed" -> "CONNECT_FAILED"
      [] err.variant = "Timeout" -> "TIMEOUT"
      [] err.variant = "EmptyResponse" -> "EMPTY_RESPONSE"
      [] err.variant = "SerializeError" -> "SERIALIZE_ERROR"
      [] err.variant = "ParseError" -> "PARSE_ERROR"

\* serde_json::from_str::<Response>(&line): id and ok are required
Client_from_str(line) ==
    LET body == trim(line)
    IN  IF /\ Len(body) = 1
           /\ body[1].k = "doc"
           /\ {"id", "ok"} \subseteq DOMAIN body[1].d
           /\ body[1].d.id.t = "str"
           /\ body[1].d.ok.t = "bool"
        THEN Ok(body[1].d)
        ELSE Err(ParseError)

\* DaemonClient::new(socket_path, timeout_secs); timeout in seconds
DaemonClient(timeout) ==
    [pc |-> "idle", timeout |-> timeout, calls |-> 0, request |-> None, sends |-> 0,
     silent |-> FALSE, result |-> None]

\* how the client is left when call returns
Returned(cl, result) == [cl EXCEPT !.pc = "returned", !.result = Some(result)]

\* call, lines 57-67: path.exists(), UnixStream::connect(path)?,
\* set_read_timeout(Some(timeout))?, set_write_timeout(Some(timeout))?.
\* A zero Duration is refused with InvalidInput.
ClientCall(request) ==
    /\ client.pc \in {"idle", "returned"}
    /\ client.calls < MaxCalls
    /\ LET cl == [client EXCEPT !.calls = client.calls + 1, !.request = Some(request),
                                !.sends = 0, !.silent = FALSE, !.result = None]
       IN  \E exists \in BOOLEAN, connect \in {"ok", "ConnectionRefused", "PermissionDenied"} :
              client' =
                  IF ~exists THEN Returned(cl, Err(SocketNotFound("daemon.sock")))
                  ELSE IF connect # "ok" THEN Returned(cl, Err(ConnectionFailed(connect)))
                  ELSE IF cl.timeout = 0
                  THEN Returned(cl, Err(ConnectionFailed("InvalidInput")))
                  ELSE [cl EXCEPT !.pc = "connected"]
    /\ UNCHANGED <<pc, env, sockFile, sockMode, backlog, conns, nconn, cur, acceptLog,
                   acceptErr, service, call>>

\* call, lines 70-74: the request line is written and flushed; a write that
\* does not finish within the timeout fails with WouldBlock
ClientWrite ==
    /\ client.pc = "connected"
    /\ \E w \in {"ok", "BrokenPipe", "WouldBlock"} :
          client' =
              IF w = "ok"
              THEN [client EXCEPT !.pc = "sent", !.sends = client.sends + 1]
              ELSE Returned(client, Err(ConnectionFailed(w)))
    /\ UNCHANGED <<pc, env, sockFile, sockMode, backlog, conns, nconn, cur, acceptLog,
                   acceptErr, service, call>>

\* what the client's application asks for
ClientRequests ==
    { [id |-> "id-a", method |-> "health"], [id |-> "id-b", method |-> "recent"],
      [id |-> "id-a", method |-> "no-such-method"] }

\* what arrives on the client's stream: a response line of the daemon, text
\* that is no response, bytes that are no UTF-8, or the end of the stream
DaemonAnswers(request) ==
    { to_ndjson_line(Response_success(request.id, JObj(EmptyMap), JFloat(0, 3))),
      to_ndjson_line(Response_error(request.id, "ERROR", "failed", JFloat(0, 3))),
      <<TJunk, TNl>>,
      <<TBadUtf8, TNl>>,
      <<>> }

\* call, lines 77-88, when bytes or the end of the stream arrive in time:
\* reader.read_line(&mut line)?, the test for zero bytes, the parse
ClientRead ==
    /\ client.pc = "sent"
    /\ \E rx \in DaemonAnswers(client.request.v) :
          LET rd == read_line(rx)
          IN  client' =
                  IF rd.t = "Err" THEN Returned(client, Err(ConnectionFailed(rd.e)))
                  ELSE IF Len(rd.v) = 0 THEN Returned(client, Err(EmptyResponse))
                  ELSE Returned(client, Client_from_str(rd.v))
    /\ UNCHANGED <<pc, env, sockFile, sockMode, backlog, conns, nconn, cur, acceptLog,
                   acceptErr, service, call>>

\* call, line 79, when the read timeout set at line 66 runs out (WouldBlock)
\* or the read fails otherwise: reader.read_line(&mut line)? returns the
\* io::Error through From<io::Error>
ClientReadFails ==
    /\ client.pc = "sent"
    /\ \E kind \in {"WouldBlock", "ConnectionReset"} :
          client' = [Returned(client, Err(ConnectionFailed(kind)))
                        EXCEPT !.silent = (kind = "WouldBlock")]
    /\ UNCHANGED <<pc, env, sockFile, sockMode, backlog, conns, nconn, cur, acceptLog,
                   acceptErr, service, call>>

ClientTimeouts == {0, 5}

\* ------------------------------------------------------ db/blob_parser.rs
\* A blob is a sequence of bytes (0..255), a String a sequence of code
\* points; a position is counted from 0 as in the code.

\* b"NSString"
NSString == <<78, 83, 83, 116, 114, 105, 110, 103>>

\* b"NSMutableString"
NSMutableString == <<78, 83, 77, 117, 116, 97, 98, 108, 101, 83, 116, 114, 105, 110, 103>>

\* b"bplist"
Bplist == <<98, 112, 108, 105, 115, 116>>

\* b"+"
Plus == <<43>>

\* the '+' must lie fewer than this many bytes from the NSString marker
PlusWindow == 20

\* U+FFFD REPLACEMENT CHARACTER
Replacement == 65533

\* an index or a slice out of bounds panics
Panicked(x) == "t" \in DOMAIN x /\ x.t = "Panic"

\* &blob[start..]
slice_from(blob, start) ==
    IF start <= Len(blob) THEN SubSeq(blob, start + 1, Len(blob)) ELSE Panic

\* haystack.windows(needle.len()).position(|window| window == needle)
\* from window i on: the first window that is the needle
position_from(haystack, needle, i) ==
    LET hits == { j \in i..(Len(haystack) - Len(needle)) :
                    SubSeq(haystack, j + 1, j + Len(needle)) = needle }
    IN  IF hits = {} THEN None
        ELSE Some(CHOOSE j \in hits : \A k \in hits : j <= k)

find_subsequence(haystack, needle) == position_from(haystack, needle, 0)

\* a continuation byte of UTF-8
is_continuation(b) == b \in 128..191

\* UTF-8 decoding of one- and two-byte sequences from position i on; every
\* other byte is invalid: it ends the strict decoding (valid = FALSE) and
\* becomes U+FFFD in the lossy one.  A byte is the second of a two-byte
\* sequence when it is a continuation byte behind a lead byte, and a lead
\* byte is never a continuation byte; every other byte starts a character.
utf8_from(bytes, i) ==
    LET two_bytes(j) ==
            bytes[j] \in 194..223 /\ j < Len(bytes) /\ is_continuation(bytes[j + 1])
        starts_char(j) == j >= i /\ ~(j > i /\ two_bytes(j - 1))
        starts == SelectSeq([j \in 1..Len(bytes) |-> j], starts_char)
        well_formed(j) == bytes[j] < 128 \/ two_bytes(j)
        char(j) == IF bytes[j] < 128 THEN bytes[j]
                   ELSE IF two_bytes(j)
                   THEN ((bytes[j] - 192) * 64) + (bytes[j + 1] - 128)
                   ELSE Replacement
    IN  [valid |-> \A k \in 1..Len(starts) : well_formed(starts[k]),
         chars |-> [k \in 1..Len(starts) |-> char(starts[k])]]

\* String::from_utf8(bytes)
from_utf8(bytes) ==
    LET r == utf8_from(bytes, 1) IN IF r.valid THEN Ok(r.chars) ELSE Err("Utf8Error")

\* String::from_utf8_lossy(bytes)
from_utf8_lossy(bytes) == utf8_from(bytes, 1).chars

\* extract_until_control: the length of the prefix before the first 0x86,
\* 0x84, 0x00 or 'i' followed by 'I' or 'N'
control_end(blob, end) ==
    LET breaks(i) ==
            LET byte == blob[i + 1]
            IN  \/ byte = 134 \/ byte = 132 \/ byte = 0
                \/ byte = 105 /\ i + 1 < Len(blob) /\ blob[i + 2] \in {73, 78}
        stops == { i \in end..(Len(blob) - 1) : breaks(i) }
    IN  IF stops = {} THEN (IF end >= Len(blob) THEN end ELSE Len(blob))
        ELSE CHOOSE i \in stops : \A k \in stops : i <= k

\* an end test that takes every 'i' for the start of the end pattern
extract_until_control_at_any_i(blob) ==
    LET i == find_subsequence(blob, <<105>>)
        n == control_end(blob, 0)
    IN  SubSeq(blob, 1, IF i.some /\ i.v < n THEN i.v ELSE n)

extract_until_control(blob) == SubSeq(blob, 1, control_end(blob, 0))

\* try_decode_text: strict UTF-8, else lossy; trimmed; None when blank
try_decode_text(bytes) ==
    LET strict == from_utf8(bytes)
        lossy == str_trim(from_utf8_lossy(bytes))
    IN  IF strict.t = "Ok" /\ str_trim(strict.v) # <<>> THEN Some(str_trim(strict.v))
        ELSE IF lossy # <<>> THEN Some(lossy)
        ELSE None

\* the text that starts at text_start_abs, sliced without the test of
\* text_start_abs against the length of the blob
text_at_anchor_unchecked(blob, text_start_abs) ==
    IF text_start_abs > Len(blob) THEN slice_from(blob, text_start_abs)
    ELSE LET text == try_decode_text(extract_until_control(slice_from(blob, text_start_abs)))
         IN  IF text.some /\ text.v # <<>> THEN text ELSE None

\* parse_streamtyped, lines 127-134 and 144-151: the text that starts at
\* text_start_abs, when that lies inside the blob
text_at_anchor(blob, text_start_abs) ==
    IF text_start_abs < Len(blob)
    THEN LET text == try_decode_text(extract_until_control(slice_from(blob, text_start_abs)))
         IN  IF text.some /\ text.v # <<>> THEN text ELSE None
    ELSE None

\* parse_streamtyped, method 1 (lines 120-137): the NSString marker
streamtyped_nsstring(blob) ==
    LET nsstring_idx == find_subsequence(blob, NSString)
    IN  IF ~nsstring_idx.some THEN None
        ELSE LET plus_offset == find_subsequence(slice_from(blob, nsstring_idx.v), Plus)
             IN  IF plus_offset.some /\ plus_offset.v < PlusWindow
                 THEN text_at_anchor(blob, nsstring_idx.v + plus_offset.v + 2)
                 ELSE None

\* parse_streamtyped, method 2 (lines 140-153): the NSMutableString marker
streamtyped_nsmutablestring(blob) ==
    LET nsmut_idx == find_subsequence(blob, NSMutableString)
    IN  IF ~nsmut_idx.some THEN None
        ELSE LET plus_offset == find_subsequence(slice_from(blob, nsmut_idx.v), Plus)
             IN  IF plus_offset.some
                 THEN text_at_anchor(blob, nsmut_idx.v + plus_offset.v + 2)
                 ELSE None

parse_streamtyped(blob) ==
    LET m1 == streamtyped_nsstring(blob)
    IN  IF Panicked(m1) THEN Panic
        ELSE IF m1.some THEN m1
        ELSE streamtyped_nsmutablestring(blob)

\* plist::Value, as far as parse_bplist looks at it
PString(s) == [p |-> "string", s |-> s]

PData(bytes) == [p |-> "data", bytes |-> bytes]

PArray(a) == [p |-> "array", a |-> a]

\* a Dictionary keeps its entries in the order of the file
PDict(entries) == [p |-> "dict", e |-> entries]

PInteger == [p |-> "integer"]

RECURSIVE dict_get_from(_, _, _)
dict_get_from(entries, key, i) ==
    IF i > Len(entries) THEN None
    ELSE IF entries[i].k = key THEN Some(entries[i].v)
    ELSE dict_get_from(entries, key, i + 1)

\* Dictionary::get(key)
dict_get(d, key) == dict_get_from(d.e, key, 1)

\* str::starts_with
starts_with(s, prefix) == Len(s) >= Len(prefix) /\ SubSeq(s, 1, Len(prefix)) = prefix

\* parse_bplist, lines 63-88: the text candidates of the $objects array
RECURSIVE text_candidates(_, _)
text_candidates(objects, i) ==
    IF i > Len(objects) THEN <<>>
    ELSE LET obj == objects[i]
             here ==
                 IF obj.p = "string"
                 THEN IF /\ ~starts_with(obj.s, <<78, 83>>)
                         /\ ~starts_with(obj.s, <<36>>)
                         /\ obj.s # <<>>
                      THEN <<obj.s>> ELSE <<>>
                 ELSE IF obj.p = "dict"
                 THEN LET s == dict_get(obj, "NS.string")
                          data == dict_get(obj, "NS.bytes")
                      IN  (IF s.some /\ s.v.p = "string" THEN <<s.v.s>> ELSE <<>>)
                          \o (IF data.some /\ data.v.p = "data"
                                 /\ from_utf8(data.v.bytes).t = "Ok"
                              THEN <<from_utf8(data.v.bytes).v>> ELSE <<>>)
                 ELSE <<>>
         IN  here \o text_candidates(objects, i + 1)

\* the first candidate, blank or not
first_candidate(cands, i) ==
    IF i > Len(cands) THEN None ELSE Some(str_trim(cands[i]))

\* parse_bplist, lines 91-96: the first candidate that is not blank, trimmed
RECURSIVE first_substantial(_, _)
first_substantial(cands, i) ==
    IF i > Len(cands) THEN None
    ELSE IF str_trim(cands[i]) # <<>> THEN Some(str_trim(cands[i]))
    ELSE first_substantial(cands, i + 1)

\* parse_bplist, lines 100-106: the first top-level String value that is
\* not empty and does not start with "NS", as it is
RECURSIVE first_top_level_string(_, _)
first_top_level_string(entries, i) ==
    IF i > Len(entries) THEN None
    ELSE IF /\ entries[i].v.p = "string"
            /\ entries[i].v.s # <<>>
            /\ ~starts_with(entries[i].v.s, <<78, 83>>)
    THEN Some(entries[i].v.s)
    ELSE first_top_level_string(entries, i + 1)

\* parse_bplist, given what plist::from_bytes(blob) returned
parse_bplist(parsed) ==
    IF parsed.t = "Err" THEN parsed
    ELSE IF parsed.v.p # "dict" THEN Ok(None)
    ELSE LET objects == dict_get(parsed.v, "$objects")
             found == IF objects.some /\ objects.v.p = "array"
                      THEN first_substantial(text_candidates(objects.v.a, 1), 1)
                      ELSE None
         IN  IF found.some THEN Ok(found)
             ELSE Ok(first_top_level_string(parsed.v.e, 1))

\* "NSString", "NSObject", "NSMutable", "NSDictionary", "NSAttributed",
\* "streamtyped", "__kIM", "NSNumber", "NSValue"
skip_patterns ==
    { <<78, 83, 83, 116, 114, 105, 110, 103>>,
      <<78, 83, 79, 98, 106, 101, 99, 116>>,
      <<78, 83, 77, 117, 116, 97, 98, 108, 101>>,
      <<78, 83, 68, 105, 99, 116, 105, 111, 110, 97, 114, 121>>,
      <<78, 83, 65, 116, 116, 114, 105, 98, 117, 116, 101, 100>>,
      <<115, 116, 114, 101, 97, 109, 116, 121, 112, 101, 100>>,
      <<95, 95, 107, 73, 77>>,
      <<78, 83, 78, 117, 109, 98, 101, 114>>,
      <<78, 83, 86, 97, 108, 117, 101>> }

\* char::is_ascii_graphic
is_ascii_graphic(ch) == ch \in 33..126

\* str::trim_matches('+')
RECURSIVE trim_matches_plus(_)
trim_matches_plus(s) ==
    IF s # <<>> /\ Head(s) = 43 THEN trim_matches_plus(Tail(s))
    ELSE IF s # <<>> /\ s[Len(s)] = 43 THEN trim_matches_plus(SubSeq(s, 1, Len(s) - 1))
    ELSE s

\* a loop that keeps the last of the longest cleaned runs
best_after_run_or_equal(current_run, best_candidate) ==
    IF Len(current_run) >= 3
       /\ ~(\E p \in skip_patterns : find_subsequence(current_run, p).some)
    THEN LET cleaned == str_trim(trim_matches_plus(current_run))
         IN  IF Len(cleaned) >= 2
                /\ (~best_candidate.some \/ Len(cleaned) >= Len(best_candidate.v))
             THEN Some(cleaned)
             ELSE best_candidate
    ELSE best_candidate

\* extract_readable_text, lines 226-237 and 243-253: what a finished run
\* makes of the best candidate
best_after_run(current_run, best_candidate) ==
    IF Len(current_run) >= 3
       /\ ~(\E p \in skip_patterns : find_subsequence(current_run, p).some)
    THEN LET cleaned == str_trim(trim_matches_plus(current_run))
         IN  IF Len(cleaned) >= 2
                /\ (~best_candidate.some \/ Len(cleaned) > Len(best_candidate.v))
             THEN Some(cleaned)
             ELSE best_candidate
    ELSE best_candidate

\* extract_readable_text, lines 222-255: the runs in the order in which the
\* loop finishes them, each making what best_after_run makes of the best
\* candidate so far
RECURSIVE readable_loop(_, _, _)
readable_loop(runs, k, best_candidate) ==
    IF k > Len(runs) THEN best_candidate
    ELSE readable_loop(runs, k + 1, best_after_run(runs[k], best_candidate))

\* extract_readable_text, lines 222-255.  current_run is finished by every
\* char that is neither graphic nor a space, where nothing is done with an
\* empty run (line 225), and by the end of the text.
readable_from(text) ==
    LET ends_run(i) == ~(is_ascii_graphic(text[i]) \/ text[i] = 32)
        ends == SelectSeq([i \in 1..Len(text) |-> i], ends_run) \o <<Len(text) + 1>>
        current_run(k) ==
            SubSeq(text, (IF k = 1 THEN 0 ELSE ends[k - 1]) + 1, ends[k] - 1)
        not_empty(k) == current_run(k) # <<>>
        finished == SelectSeq([k \in 1..Len(ends) |-> k], not_empty)
    IN  readable_loop([n \in 1..Len(finished) |-> current_run(finished[n])], 1, None)

extract_readable_text(blob) == readable_from(from_utf8_lossy(blob))

\* a decoder that tries the stream-typed path before the keyed archive
extract_text_from_blob_streamtyped_first(blob) ==
    IF blob.bytes = <<>> THEN Ok(None)
    ELSE LET bplist_start == find_subsequence(blob.bytes, Bplist)
             keyed == IF bplist_start.some THEN parse_bplist(blob.plist) ELSE Ok(None)
             streamtyped == parse_streamtyped(blob.bytes)
         IN  IF Panicked(streamtyped) THEN Panic
             ELSE IF streamtyped.some THEN Ok(streamtyped)
             ELSE IF keyed.t = "Ok" /\ keyed.v.some THEN Ok(keyed.v)
             ELSE Ok(extract_readable_text(blob.bytes))

\* extract_text_from_blob; blob.plist is what plist::from_bytes returns for
\* the bytes from the bplist header on
extract_text_from_blob(blob) ==
    IF blob.bytes = <<>> THEN Ok(None)
    ELSE LET bplist_start == find_subsequence(blob.bytes, Bplist)
             keyed == IF bplist_start.some THEN parse_bplist(blob.plist) ELSE Ok(None)
         IN  IF keyed.t = "Ok" /\ keyed.v.some THEN Ok(keyed.v)
             ELSE LET streamtyped == parse_streamtyped(blob.bytes)
                  IN  IF Panicked(streamtyped) THEN Panic
                      ELSE IF streamtyped.some THEN Ok(streamtyped)
                      ELSE Ok(extract_readable_text(blob.bytes))

\* ---------------------------------------------------------- specification

\* the contact table, in load order
Contacts ==
    <<
       \* Alice, +1 (415) 555-1234
       [name |-> <<65, 108, 105, 99, 101>>,
        phone |-> <<43, 49, 32, 40, 52, 49, 53, 41, 32, 53, 53, 53, 45, 49, 50, 51, 52>>],
       \* Bob, 14155551234
       [name |-> <<66, 111, 98>>,
        phone |-> <<49, 52, 49, 53, 53, 53, 53, 49, 50, 51, 52>>],
       \* alice, +44 20 7946 0958
       [name |-> <<97, 108, 105, 99, 101>>,
        phone |-> <<43, 52, 52, 32, 50, 48, 32, 55, 57, 52, 54, 32, 48, 57, 53, 56>>],
       \* Zo\u00CB, zoe@example.com
       [name |-> <<90, 111, 203>>,
        phone |-> <<122, 111, 101, 64, 101, 120, 97, 109, 112, 108, 101, 46, 99, 111, 109>>],
       \* Dee, dee2@example.com
       [name |-> <<68, 101, 101>>,
        phone |-> <<100, 101, 101, 50, 64, 101, 120, 97, 109, 112, 108, 101, 46, 99, 111, 109>>] >>

Init ==
    /\ pc = "start"
    /\ env \in [overflowChecks : BOOLEAN, now : {1767225600}]
    /\ sockFile \in {"absent", "stale"}
    /\ sockMode = 0
    /\ backlog = <<>>
    /\ conns = [c \in 1..MaxConns |-> NoConn]
    /\ nconn = 0
    /\ cur = 0
    /\ acceptLog = <<>>
    /\ acceptErr = FALSE
    /\ service = [conn |-> "chat.db", contacts |-> Contacts,
                  started_at |-> "2026-01-01T00:00:00+00:00", pid |-> JUInt(4242)]
    /\ call = None
    /\ client = DaemonClient(5)

Next ==
    \/ RemoveStale
    \/ Bind
    \/ SetPermissions
    \/ Accept
    \/ AcceptError
    \/ HandleConnection
    \/ ClientConnect
    \/ \E c \in 1..MaxConns, m \in ClientMessages : ClientSend(c, m)
    \/ \E c \in 1..MaxConns : ClientShutdown(c)

Spec == Init /\ [][Next]_vars

\* ------------------------------------------------ the serve loop in time
\* The socket operations of handle_connection block: read_line until the
\* stream holds a line or has ended, write_all and flush while the response
\* does not fit the socket buffer and the client neither reads nor hangs up.

\* write_all returns once the client reads its stream or has closed it
WriteReady(c) == c.reads \/ c.hungup

\* handle_connection, lines 78-107, up to write_all: a response that does
\* not fit the socket buffer, to a client that is not reading
HandleConnectionUntilWrite ==
    /\ pc = "reading"
    /\ ReadReady(conns[cur])
    /\ ~WriteReady(conns[cur])
    /\ \E ms \in ElapsedMs :
          handle_connection(conns[cur], service,
              [dbOk |-> TRUE, broken |-> {}, overflowChecks |-> env.overflowChecks,
               now |-> env.now], ms, TRUE).conn.outcome = "responded"
    /\ pc' = "writing"
    /\ UNCHANGED <<env, sockFile, sockMode, backlog, conns, nconn, cur, acceptLog, acceptErr,
                   service, call, client>>

\* handle_connection, lines 107-111: write_all and flush return, with an
\* error when the client has closed its stream
WriteAll ==
    /\ pc = "writing"
    /\ WriteReady(conns[cur])
    /\ \E wok \in BOOLEAN, dbOk \in BOOLEAN, ms \in ElapsedMs :
          /\ conns[cur].hungup => ~wok
          /\ conns' = [conns EXCEPT ![cur] =
                          handle_connection(conns[cur], service,
                              [dbOk |-> dbOk, broken |-> {},
                               overflowChecks |-> env.overflowChecks, now |-> env.now],
                              ms, wok).conn]
    /\ pc' = "accepting"
    /\ cur' = 0
    /\ UNCHANGED <<env, sockFile, sockMode, backlog, nconn, acceptLog, acceptErr,
                   service, call, client>>

\* a client starts reading its stream
ClientReads(c) ==
    /\ conns[c].st \in {"queued", "accepted"}
    /\ ~conns[c].reads
    /\ ~conns[c].hungup
    /\ conns' = [conns EXCEPT ![c].reads = TRUE]
    /\ UNCHANGED <<pc, env, sockFile, sockMode, backlog, nconn, cur, acceptLog, acceptErr,
                   service, call, client>>

\* a client closes its stream
ClientHangsUp(c) ==
    /\ conns[c].st \in {"queued", "accepted"}
    /\ ~conns[c].hungup
    /\ conns' = [conns EXCEPT ![c].hungup = TRUE, ![c].eof = TRUE]
    /\ UNCHANGED <<pc, env, sockFile, sockMode, backlog, nconn, cur, acceptLog, acceptErr,
                   service, call, client>>

\* what clients send here: a request, a request that panics a build with
\* overflow checks, a blank line, and a request without its newline
LiveMessages ==
    { ReqLine("id-a", "health", EmptyMap),
      ReqLine("id-a", "followup", [k \in {"stale"} |-> JUInt(106752)]),
      <<TWs, TNl>>,
      <<TDoc(ReqDoc(JStr("id-b"), JUInt(1), JStr("health"), JObj(EmptyMap)))>> }

\* the server listens
InitLive ==
    /\ pc = "accepting"
    /\ env \in [overflowChecks : BOOLEAN, now : {1767225600}]
    /\ sockFile = "socket"
    /\ sockMode = 384
    /\ backlog = <<>>
    /\ conns = [c \in 1..MaxConns |-> NoConn]
    /\ nconn = 0
    /\ cur = 0
    /\ acceptLog = <<>>
    /\ acceptErr = FALSE
    /\ service = [conn |-> "chat.db", contacts |-> Contacts,
                  started_at |-> "2026-01-01T00:00:00+00:00", pid |-> JUInt(4242)]
    /\ call = None
    /\ client = DaemonClient(5)

NextLive ==
    \/ Accept
    \/ AcceptError
    \/ HandleConnection
    \/ HandleConnectionUntilWrite
    \/ WriteAll
    \/ ClientConnect
    \/ \E c \in 1..MaxConns, m \in LiveMessages : ClientSend(c, m)
    \/ \E c \in 1..MaxConns : ClientShutdown(c)
    \/ \E c \in 1..MaxConns : ClientReads(c)
    \/ \E c \in 1..MaxConns : ClientHangsUp(c)

\* the step of HandleConnection or HandleConnectionUntilWrite, as pc shows
\* it: read_line has returned and the handler goes on
ReadReturns ==
    /\ pc = "reading"
    /\ ReadReady(conns[cur])
    /\ pc' \in {"accepting", "writing", "panicked"}

\* the step of WriteAll, as pc shows it: write_all and flush have returned
WriteReturns ==
    /\ pc = "writing"
    /\ WriteReady(conns[cur])
    /\ pc' = "accepting"

\* serve is a loop on one thread: it takes the next pending connection when
\* there is one, and handle_connection goes on whenever its socket operation
\* returns.  Nothing is assumed of the clients.
SpecLive ==
    /\ InitLive
    /\ [][NextLive]_vars
    /\ WF_vars(Accept)
    /\ WF_pc(ReadReturns)
    /\ WF_pc(WriteReturns)

\* ------------------------------------------- dispatch called on its own

Methods == {"health", "recent", "unread", "analytics", "followup", "no-such-method"}

\* what a client may put under a numeric parameter's key
ParamValues ==
    { JUInt(0), JUInt(5), JNInt(-5), JFloat(2, 5), JStr("abc"), JBool(TRUE), JNull,
      JObj(EmptyMap) }

ParamMaps == UNION { [keys -> ParamValues] : keys \in SUBSET {"days", "limit", "stale"} }

\* DaemonService::dispatch(method, params), the row source answering or not
DirectDispatch(method, params, dbOk) ==
    /\ pc = "start"
    /\ ~call.some
    /\ call' = Some([method |-> method, params |-> params, dbOk |-> dbOk,
                     out |-> dispatch(service, method, params,
                                [dbOk |-> dbOk, broken |-> {}, overflowChecks |-> env.overflowChecks,
                                 now |-> env.now])])
    /\ UNCHANGED <<pc, env, sockFile, sockMode, backlog, conns, nconn, cur, acceptLog,
                   acceptErr, service, client>>

NextDispatch ==
    \E method \in Methods, params \in ParamMaps, dbOk \in BOOLEAN :
        DirectDispatch(method, params, dbOk)

SpecDispatch == Init /\ [][NextDispatch]_vars

\* ----------------------------------------------- the reference client alone

\* every variable but client, for the specifications of single calls
InitServerIdle ==
    /\ pc = "start"
    /\ env = [overflowChecks |-> FALSE, now |-> 1767225600]
    /\ sockFile = "absent"
    /\ sockMode = 0
    /\ backlog = <<>>
    /\ conns = [c \in 1..MaxConns |-> NoConn]
    /\ nconn = 0
    /\ cur = 0
    /\ acceptLog = <<>>
    /\ acceptErr = FALSE
    /\ service = [conn |-> "chat.db", contacts |-> Contacts,
                  started_at |-> "2026-01-01T00:00:00+00:00", pid |-> JUInt(4242)]
    /\ call = None

InitCalls == InitServerIdle /\ client = DaemonClient(5)

InitClient == InitServerIdle /\ \E timeout \in ClientTimeouts : client = DaemonClient(timeout)

NextClient ==
    \/ \E request \in ClientRequests : ClientCall(request)
    \/ ClientWrite
    \/ ClientRead
    \/ ClientReadFails

SpecClient == InitClient /\ [][NextClient]_vars

\* ------------------------------------------------- the blob decoder alone

\* the pieces blobs are put together from, in this order
BlobParts ==
    [prefix : { <<>>,
                <<115, 116, 114, 101, 97, 109, 116, 121, 112, 101, 100>>,   \* "streamtyped"
                <<98, 112, 108, 105, 115, 116, 48, 48>> },                  \* "bplist00"
     marker : { <<>>, NSString, NSMutableString },
     ctrl : { <<>>, <<1, 148, 132, 1>>, [i \in 1..11 |-> 1], [i \in 1..12 |-> 1] },
     plus : { <<>>, Plus },
     len : { <<>>, <<5>> },
     text : { <<>>,
              <<72, 105>>,                   \* "Hi"
              <<72, 101, 108, 108, 111>>,    \* "Hello"
              <<32, 72, 105, 32>>,           \* " Hi "
              <<97, 43, 98>>,                \* "a+b"
              <<195>>,                       \* half of a two-byte character
              <<195, 169>>,                  \* U+00E9
              <<195, 132>> },                \* U+00C4, whose second byte is 0x84
     term : { <<>>, <<134, 132>>, <<0>>, <<105, 73>> },
     suffix : { <<>>, NSMutableString \o <<43, 2, 89, 111, 134>> }]

BlobBytes(parts) ==
    parts.prefix \o parts.marker \o parts.ctrl \o parts.plus \o parts.len \o parts.text
        \o parts.term \o parts.suffix

\* what plist::from_bytes makes of the bytes from a bplist header on
PlistResults ==
    { Err("InvalidFile"),
      \* a keyed archive whose $objects hold " Hey "
      Ok(PDict(<<[k |-> "$archiver", v |-> PString(<<78, 83, 75, 101, 121, 101, 100>>)],
                 [k |-> "$objects",
                  v |-> PArray(<<PString(<<36, 110, 117, 108, 108>>),
                                 PString(<<78, 83, 83, 116, 114, 105, 110, 103>>),
                                 PString(<<32, 72, 101, 121, 32>>)>>)]>>)),
      \* $objects with a blank NS.string and NS.bytes "Yes"
      Ok(PDict(<<[k |-> "$objects",
                  v |-> PArray(<<PDict(<<[k |-> "NS.string", v |-> PString(<<32>>)],
                                         [k |-> "NS.bytes", v |-> PData(<<89, 101, 115>>)]>>)>>)]>>)),
      \* $objects with class names only, and no other String at the top
      Ok(PDict(<<[k |-> "$version", v |-> PInteger],
                 [k |-> "$archiver", v |-> PString(<<78, 83, 75, 101, 121, 101, 100>>)],
                 [k |-> "$objects",
                  v |-> PArray(<<PString(<<36, 110, 117, 108, 108>>),
                                 PDict(<<[k |-> "NS.bytes", v |-> PData(<<195>>)]>>)>>)]>>)),
      \* a plain dictionary with the String " ok " at the top
      Ok(PDict(<<[k |-> "title", v |-> PString(<<32, 111, 107, 32>>)]>>)),
      \* a plain dictionary with a String of one blank at the top
      Ok(PDict(<<[k |-> "title", v |-> PString(<<32>>)]>>)),
      \* a plist that is no dictionary
      Ok(PArray(<<PString(<<72, 105>>)>>)) }

\* extract_text_from_blob called once
DecodeBlob(parts, plist) ==
    /\ pc = "start"
    /\ ~call.some
    /\ LET blob == [bytes |-> BlobBytes(parts), plist |-> plist]
       IN  call' = Some([fn |-> "extract_text_from_blob", parts |-> parts, blob |-> blob,
                         out |-> extract_text_from_blob(blob)])
    /\ UNCHANGED <<pc, env, sockFile, sockMode, backlog, conns, nconn, cur, acceptLog,
                   acceptErr, service, client>>

NextBlob ==
    \E parts \in BlobParts :
        \E plist \in IF find_subsequence(BlobBytes(parts), Bplist).some
                     THEN PlistResults ELSE {Err("InvalidFile")} :
            DecodeBlob(parts, plist)

SpecBlob == InitCalls /\ [][NextBlob]_vars

\* ------------------------------------------------ the keyed archive alone

\* the values an $objects array is put together from
ArchiveObjects ==
    { PString(<<72, 105>>),                                   \* "Hi"
      PString(<<32>>),                                        \* " "
      PString(<<>>),                                          \* ""
      PString(<<78, 83, 83, 116, 114, 105, 110, 103>>),       \* "NSString"
      PString(<<36, 110, 117, 108, 108>>),                    \* "$null"
      PString(<<32, 72, 101, 121, 32>>),                      \* " Hey "
      PDict(<<[k |-> "NS.string", v |-> PString(<<32>>)]>>),
      PDict(<<[k |-> "NS.string", v |-> PString(<<78, 83, 120>>)]>>),      \* "NSx"
      PDict(<<[k |-> "NS.bytes", v |-> PData(<<89, 101, 115>>)]>>),        \* "Yes"
      PDict(<<[k |-> "NS.bytes", v |-> PData(<<195>>)]>>),                 \* no UTF-8
      PDict(<<[k |-> "NS.bytes", v |-> PData(<<32, 66>>)],
              [k |-> "NS.string", v |-> PString(<<>>)]>>),                 \* "" and " B"
      PDict(<<[k |-> "NS.string", v |-> PData(<<72, 105>>)],
              [k |-> "NS.bytes", v |-> PString(<<72, 105>>)]>>),           \* types swapped
      PData(<<72, 105>>),
      PInteger }

\* $objects arrays of up to two values
ObjectTables ==
    {<<>>} \cup { <<a>> : a \in ArchiveObjects }
           \cup { <<a, b>> : a \in ArchiveObjects, b \in ArchiveObjects }

\* the entries of the top-level mapping before and after $objects
TopLevels ==
    { [before |-> <<>>, after |-> <<>>],
      [before |-> <<[k |-> "title", v |-> PString(<<32, 111, 107, 32>>)]>>, after |-> <<>>],
      [before |-> <<[k |-> "$archiver", v |-> PString(<<78, 83, 75>>)]>>,
       after |-> <<[k |-> "$version", v |-> PInteger],
                   [k |-> "note", v |-> PString(<<>>)],
                   [k |-> "name", v |-> PString(<<84>>)]>>] }

\* what plist::from_bytes can return
ParsedPlists ==
    { Ok(PDict(top.before \o <<[k |-> "$objects", v |-> PArray(objects)]>> \o top.after)) :
        top \in TopLevels, objects \in ObjectTables }
    \cup { Ok(PDict(top.before \o <<[k |-> "$objects", v |-> PString(<<72, 105>>)]>>
                    \o top.after)) : top \in TopLevels }
    \cup { Ok(PDict(top.before \o top.after)) : top \in TopLevels }
    \cup { Err("InvalidFile"), Ok(PArray(<<PString(<<72, 105>>)>>)), Ok(PString(<<72, 105>>)) }

\* parse_bplist called once
ParseBplist(parsed) ==
    /\ pc = "start"
    /\ ~call.some
    /\ call' = Some([fn |-> "parse_bplist", parsed |-> parsed, out |-> parse_bplist(parsed)])
    /\ UNCHANGED <<pc, env, sockFile, sockMode, backlog, conns, nconn, cur, acceptLog,
                   acceptErr, service, client>>

NextBplist == \E parsed \in ParsedPlists : ParseBplist(parsed)

SpecBplist == InitCalls /\ [][NextBplist]_vars

\* --------------------------------------------- the heuristic fallback alone

\* the pieces of text blobs are put together from
TextPieces ==
    { <<>>,
      <<97, 98>>,                                   \* "ab"
      <<97, 98, 99>>,                               \* "abc"
      <<120, 121, 122>>,                            \* "xyz"
      <<43, 97, 98, 43>>,                           \* "+ab+"
      <<43, 43, 97>>,                               \* "++a"
      <<32, 72, 105, 32>>,                          \* " Hi "
      <<32, 32, 32>>,                               \* "   "
      <<72, 101, 108, 108, 111>>,                   \* "Hello"
      <<43, 32, 43, 72, 105, 43, 32, 43>>,          \* "+ +Hi+ +"
      <<78, 83, 86, 97, 108, 117, 101, 49>>,        \* "NSValue1"
      <<97, 95, 95, 107, 73, 77, 98>> }             \* "a__kIMb"

\* what stands between the pieces: a control byte, a byte that is no UTF-8,
\* a character outside ASCII
TextBreaks == { <<1>>, <<255>>, <<195, 169>> }

\* extract_readable_text called once
ReadText(a, b, c, break) ==
    /\ pc = "start"
    /\ ~call.some
    /\ LET blob == a \o break \o b \o break \o c
       IN  call' = Some([fn |-> "extract_readable_text", blob |-> blob,
                         out |-> extract_readable_text(blob)])
    /\ UNCHANGED <<pc, env, sockFile, sockMode, backlog, conns, nconn, cur, acceptLog,
                   acceptErr, service, client>>

NextReadable ==
    \E a \in TextPieces, b \in TextPieces, c \in TextPieces, break \in TextBreaks :
        ReadText(a, b, c, break)

SpecReadable == InitCalls /\ [][NextReadable]_vars

\* -------------------------------------------- the conversation kind alone

\* char::is_ascii_digit
is_ascii_digit(c) == c \in 48..57

\* a test for the "chat" prefix and its digits only
is_group_chat_identifier_prefix_only(chat_id) ==
    /\ chat_id.some
    /\ starts_with(chat_id.v, <<99, 104, 97, 116>>)
    /\ \A i \in 5..Len(chat_id.v) : is_ascii_digit(chat_id.v[i])

\* reading.rs, is_group_chat_identifier; id[4..] is the rest behind "chat"
is_group_chat_identifier(chat_id) ==
    IF ~chat_id.some THEN FALSE
    ELSE LET id == chat_id.v
         IN  IF starts_with(id, <<99, 104, 97, 116>>)
                /\ (LET rest == SubSeq(id, 5, Len(id))
                    IN  \A i \in 1..Len(rest) : is_ascii_digit(rest[i]))
             THEN TRUE
             ELSE \E i \in 1..Len(id) : id[i] = 44

\* reading.rs, recent (131-140), find (274-282), unread (366-374) and
\* text_search (454-462): the conversation kind of a Message
message_kind(cache_roomnames) ==
    LET is_group == is_group_chat_identifier(cache_roomnames)
    IN  [is_group_chat |-> is_group,
         group_id |-> IF is_group THEN cache_roomnames ELSE None]

\* room identifiers: what stands in front, in the middle and at the end
RoomNames ==
    { front \o middle \o back :
        front \in { <<>>, <<99, 104, 97, 116>>,             \* "chat"
                    <<67, 104, 97, 116>>,                   \* "Chat"
                    <<99, 104, 97>>,                        \* "cha"
                    <<120, 99, 104, 97, 116>> },            \* "xchat"
        middle \in { <<>>, <<49>>, <<49, 50, 51>>,          \* "1", "123"
                     <<49, 50, 97>>,                        \* "12a"
                     <<1635>>,                              \* ARABIC-INDIC DIGIT THREE
                     <<45, 49>>, <<32, 49>> },              \* "-1", " 1"
        back \in { <<>>, <<44>>,                            \* ","
                   <<44, 43, 49, 53, 53, 53>>,              \* ",+1555"
                   <<97, 44, 98>> } }                       \* "a,b"

\* the listings that make Messages
MessageListings == { "recent", "find", "unread", "text_search" }

\* one row made a Message by one listing
NormalizeMessage(listing, cache_roomnames) ==
    /\ pc = "start"
    /\ ~call.some
    /\ call' = Some([fn |-> "message_kind", listing |-> listing,
                     cache_roomnames |-> cache_roomnames,
                     out |-> message_kind(cache_roomnames)])
    /\ UNCHANGED <<pc, env, sockFile, sockMode, backlog, conns, nconn, cur, acceptLog,
                   acceptErr, service, client>>

NextKind ==
    \E listing \in MessageListings, cache_roomnames \in {None} \cup { Some(id) : id \in RoomNames } :
        NormalizeMessage(listing, cache_roomnames)

SpecKind == InitCalls /\ [][NextKind]_vars

\* ------------------------------------------ bundle and followup on their own

\* what a client may put under "include"
IncludeValues ==
    {
      \* "unread_count, recent"
      JStr(<<117, 110, 114, 101, 97, 100, 95, 99, 111, 117, 110, 116, 44, 32, 114, 101, 99,
           101, 110, 116>>),
      \* " analytics "
      JStr(<<32, 97, 110, 97, 108, 121, 116, 105, 99, 115, 32>>),
      \* "recent,recent"
      JStr(<<114, 101, 99, 101, 110, 116, 44, 114, 101, 99, 101, 110, 116>>),
      \* "bogus"
      JStr(<<98, 111, 103, 117, 115>>),
      \* ""
      JStr(<<>>),
      \* "unread count"
      JStr(<<117, 110, 114, 101, 97, 100, 32, 99, 111, 117, 110, 116>>),
      \* "Recent"
      JStr(<<82, 101, 99, 101, 110, 116>>),
      \* ",,"
      JStr(<<44, 44>>),
      \* "followup_count"
      JStr(<<102, 111, 108, 108, 111, 119, 117, 112, 95, 99, 111, 117, 110, 116>>),
      \* "analytics,followup_count,unread_count,recent"
      JStr(<<97, 110, 97, 108, 121, 116, 105, 99, 115, 44, 102, 111, 108, 108, 111, 119, 117,
           112, 95, 99, 111, 117, 110, 116, 44, 117, 110, 114, 101, 97, 100, 95, 99, 111, 117,
           110, 116, 44, 114, 101, 99, 101, 110, 116>>),
      \* "recent,bogus,analytics"
      JStr(<<114, 101, 99, 101, 110, 116, 44, 98, 111, 103, 117, 115, 44, 97, 110, 97, 108,
           121, 116, 105, 99, 115>>),
      \* "\tanalytics\n,followup_count"
      JStr(<<9, 97, 110, 97, 108, 121, 116, 105, 99, 115, 10, 44, 102, 111, 108, 108, 111, 119,
           117, 112, 95, 99, 111, 117, 110, 116>>),
      \* "recent ,, unread_count"
      JStr(<<114, 101, 99, 101, 110, 116, 32, 44, 44, 32, 117, 110, 114, 101, 97, 100, 95, 99,
           111, 117, 110, 116>>),
      \* "unread_count,recent"
      JStr(<<117, 110, 114, 101, 97, 100, 95, 99, 111, 117, 110, 116, 44, 114, 101, 99, 101,
           110, 116>>),
      JUInt(5), JNull }

\* what a client may put under "followup_stale"
StaleValues == { JUInt(3), JUInt(106751), JUInt(106752), JUInt(2147483647), JStr(<<51>>) }

BundleParams ==
    UNION { [keys -> IncludeValues \cup StaleValues] : keys \in SUBSET {"include", "followup_stale"} }

\* the statements of the row source that bundle runs
BundleStatements ==
    { "UNREAD_MESSAGES", "RECENT_MESSAGES", "ANALYTICS_MESSAGE_COUNTS",
      "FOLLOWUP_UNANSWERED_QUESTIONS", "FOLLOWUP_STALE_CONVERSATIONS" }

\* what a client may send with a followup request
FollowupParams == UNION { [keys -> StaleValues] : keys \in SUBSET {"stale"} }

\* handle_connection, lines 91-104, for one request: dispatch and the
\* response built from its result; the row source fails on the statements of
\* broken
DispatchRequest(method, params, broken) ==
    /\ pc = "start"
    /\ ~call.some
    /\ LET e == [dbOk |-> TRUE, broken |-> broken, overflowChecks |-> env.overflowChecks,
                 now |-> env.now]
           out == dispatch(service, method, params, e)
       IN  call' = Some([method |-> method, params |-> params, broken |-> broken,
                         out |-> out,
                         response |-> IF out.res.t = "Panic" THEN None
                                      ELSE Some(response_of("req-1", out.res, 1))])
    /\ UNCHANGED <<pc, env, sockFile, sockMode, backlog, conns, nconn, cur, acceptLog,
                   acceptErr, service, client>>

\* how many statements fail during one request
MaxBroken == 1

BrokenSets == { b \in SUBSET BundleStatements : Cardinality(b) <= MaxBroken }

CallBundle == \E params \in BundleParams, broken \in BrokenSets :
                  DispatchRequest("bundle", params, broken)

CallFollowup == \E params \in FollowupParams, broken \in BrokenSets :
                    DispatchRequest("followup", params, broken)

NextBundle == CallBundle \/ CallFollowup

SpecBundle == Init /\ [][NextBundle]_vars

\* ----------------------------------------------------- analytics on its own

\* what a client may put under "contact"
ContactValues ==
    {
      \* "Alice"
      JStr(<<65, 108, 105, 99, 101>>),
      \* "alice"
      JStr(<<97, 108, 105, 99, 101>>),
      \* "ALICE"
      JStr(<<65, 76, 73, 67, 69>>),
      \* "Alic"
      JStr(<<65, 108, 105, 99>>),
      \* "Alice "
      JStr(<<65, 108, 105, 99, 101, 32>>),
      \* "bob"
      JStr(<<98, 111, 98>>),
      \* "ZO\u00EB"
      JStr(<<90, 79, 235>>),
      \* "Zoe"
      JStr(<<90, 111, 101>>),
      \* "Dee"
      JStr(<<68, 101, 101>>),
      \* ""
      JStr(<<>>),
      \* "+1 (415) 555-1234"
      JStr(<<43, 49, 32, 40, 52, 49, 53, 41, 32, 53, 53, 53, 45, 49, 50, 51, 52>>),
      JUInt(5), JNull }

AnalyticsParams ==
    UNION { [keys -> ContactValues \cup {JUInt(7)}] : keys \in SUBSET {"contact", "days"} }

\* the statements of the row source that analytics runs
AnalyticsStatements ==
    { "ANALYTICS_MESSAGE_COUNTS", "ANALYTICS_BUSIEST_HOUR", "ANALYTICS_BUSIEST_DAY",
      "ANALYTICS_TOP_CONTACTS", "ANALYTICS_ATTACHMENTS_FAST", "ANALYTICS_REACTIONS" }

CallAnalytics ==
    \E params \in AnalyticsParams,
       broken \in { b \in SUBSET AnalyticsStatements : Cardinality(b) <= MaxBroken } :
        DispatchRequest("analytics", params, broken)

NextAnalytics == CallAnalytics

SpecAnalytics == Init /\ [][NextAnalytics]_vars

\* ------------------------------------------------- contact lookup alone

\* contacts/manager.rs, normalize_phone keeping the '+' as well
normalize_phone_keeping_plus(phone) ==
    LET keep(ch) == is_ascii_digit(ch) \/ ch = 43
    IN  SelectSeq(phone, keep)

\* contacts/manager.rs, normalize_phone
normalize_phone(phone) == SelectSeq(phone, is_ascii_digit)

RECURSIVE find_by_phone_from(_, _, _)
find_by_phone_from(contacts, i, normalized) ==
    IF i > Len(contacts) THEN None
    ELSE IF normalize_phone(contacts[i].phone) = normalized THEN Some(contacts[i])
    ELSE find_by_phone_from(contacts, i + 1, normalized)

\* contacts/manager.rs, ContactsManager::find_by_phone
find_by_phone(contacts, phone) == find_by_phone_from(contacts, 1, normalize_phone(phone))

\* db/helpers.rs, query_recent_messages: the phone of a row is its handle,
\* "Unknown" for a row without one
row_phone(handle) == unwrap_or(handle, <<85, 110, 107, 110, 111, 119, 110>>)

\* DaemonService::recent, lines 98-110: a message with its contact name
enrich(contacts, msg) ==
    LET found == find_by_phone(contacts, msg.phone)
    IN  [phone |-> msg.phone,
         contact_name |-> IF found.some THEN Some(found.v.name) ELSE None]

\* the handles of the rows: none, phone numbers, e-mail addresses, others
Handles ==
    { None,
      \* "+14155551234"
      Some(<<43, 49, 52, 49, 53, 53, 53, 53, 49, 50, 51, 52>>),
      \* "1 415 555 1234"
      Some(<<49, 32, 52, 49, 53, 32, 53, 53, 53, 32, 49, 50, 51, 52>>),
      \* "4155551234"
      Some(<<52, 49, 53, 53, 53, 53, 49, 50, 51, 52>>),
      \* "+44 20 7946 0958"
      Some(<<43, 52, 52, 32, 50, 48, 32, 55, 57, 52, 54, 32, 48, 57, 53, 56>>),
      \* "zoe@example.com"
      Some(<<122, 111, 101, 64, 101, 120, 97, 109, 112, 108, 101, 46, 99, 111, 109>>),
      \* "dee2@example.com"
      Some(<<100, 101, 101, 50, 64, 101, 120, 97, 109, 112, 108, 101, 46, 99, 111, 109>>),
      \* "x@y.z"
      Some(<<120, 64, 121, 46, 122>>),
      \* "2"
      Some(<<50>>),
      \* "\u0662"
      Some(<<1634>>),
      \* "Unknown"
      Some(<<85, 110, 107, 110, 111, 119, 110>>),
      \* ""
      Some(<<>>) }

\* contact tables: the one of the service, the same one backwards, one
\* without e-mail addresses, an empty one
ContactTables ==
    { Contacts, [i \in 1..Len(Contacts) |-> Contacts[(Len(Contacts) + 1) - i]],
      SubSeq(Contacts, 1, 3), <<>> }

\* the rows of two handles are enriched from a contact table
EnrichRows(contacts, senders) ==
    /\ pc = "start"
    /\ ~call.some
    /\ call' = Some([fn |-> "enrich", contacts |-> contacts, handles |-> senders,
                     out |-> [n \in 1..Len(senders) |->
                                 enrich(contacts, [phone |-> row_phone(senders[n])])]])
    /\ UNCHANGED <<pc, env, sockFile, sockMode, backlog, conns, nconn, cur, acceptLog,
                   acceptErr, service, client>>

NextContacts ==
    \E contacts \in ContactTables, h1 \in Handles, h2 \in Handles :
        EnrichRows(contacts, <<h1, h2>>)

SpecContacts == InitCalls /\ [][NextContacts]_vars

\* ------------------------------------ commands/reading.rs, commands/groups.rs
\* A row is the text column and the attributedBody column of a message,
\* each NULL (None) or a value.

\* "[message content not available]"
NotAvailable ==
    <<91, 109, 101, 115, 115, 97, 103, 101, 32, 99, 111, 110, 116, 101, 110,
      116, 32, 110, 111, 116, 32, 97, 118, 97, 105, 108, 97, 98, 108, 101,
      93>>

\* extract_text_from_blob(&blob).ok().flatten()
ok_flatten(r) == IF r.t = "Ok" THEN r.v ELSE None

\* The listing operations take the decoder they call as blob_parser:
\* blob_parser::extract_text_from_blob, as a function of the blob.

\* reading.rs, get_message_text (find)
get_message_text(text, attributed_body, blob_parser) ==
    IF text.some /\ text.v # <<>> THEN text.v
    ELSE unwrap_or(IF attributed_body.some
                   THEN ok_flatten(blob_parser[attributed_body.v])
                   ELSE None,
                   NotAvailable)

\* reading.rs, recent, lines 110-128
recent_message_text(text, attributed_body, blob_parser) ==
    IF text.some
    THEN IF text.v # <<>> THEN text.v
         ELSE IF attributed_body.some
         THEN unwrap_or(ok_flatten(blob_parser[attributed_body.v]), NotAvailable)
         ELSE NotAvailable
    ELSE IF attributed_body.some
    THEN unwrap_or(ok_flatten(blob_parser[attributed_body.v]), NotAvailable)
    ELSE NotAvailable

\* reading.rs, unread and text_search, lines 358-364 and 446-452:
\* text.filter(|t| !t.is_empty()).unwrap_or_else(..)
unread_message_text(text, attributed_body, blob_parser) ==
    IF text.some /\ text.v # <<>> THEN text.v
    ELSE unwrap_or(IF attributed_body.some
                   THEN ok_flatten(blob_parser[attributed_body.v])
                   ELSE None,
                   NotAvailable)

\* groups.rs, messages, lines 135-144 and 181-188: the blob first, then the
\* text column
group_message_text(text_col, blob_col, blob_parser) ==
    IF blob_col.some
    THEN LET extracted == ok_flatten(blob_parser[blob_col.v])
         IN  IF extracted.some THEN extracted.v ELSE unwrap_or(text_col, NotAvailable)
    ELSE unwrap_or(text_col, NotAvailable)

\* reading.rs, bundle, lines 547, 576, 606: the text column, "" for NULL
bundle_message_text(text) == unwrap_or(text, <<>>)

\* helpers.rs, query_recent_messages and query_unread_messages: the text
\* column as it is; serialized as a string, or null for NULL
daemon_message_text(text) == text

\* the listing operations: what each makes of a row, a String (Some) or null
ListingText(listing, row, blob_parser) ==
    CASE listing = "cli recent" ->
            Some(recent_message_text(row.text, row.attributed_body, blob_parser))
      [] listing = "cli find" ->
            Some(get_message_text(row.text, row.attributed_body, blob_parser))
      [] listing \in {"cli unread", "cli text_search"} ->
            Some(unread_message_text(row.text, row.attributed_body, blob_parser))
      [] listing = "cli groups messages" ->
            Some(group_message_text(row.text, row.attributed_body, blob_parser))
      [] listing = "cli bundle" -> Some(bundle_message_text(row.text))
      [] listing = "daemon recent" -> daemon_message_text(row.text)
      [] listing = "daemon unread" -> daemon_message_text(row.text)

Listings ==
    { "cli recent", "cli find", "cli unread", "cli text_search", "cli groups messages",
      "cli bundle", "daemon recent", "daemon unread" }

\* message rows: the text column NULL, "", " " or "Hi", the blob column NULL
\* or a blob
Rows_text == { None, Some(<<>>), Some(<<32>>), Some(<<72, 105>>) }

Rows_attributed_body ==
    { None,
      Some([bytes |-> <<>>, plist |-> Err("InvalidFile")]),
      Some([bytes |-> <<1, 2>>, plist |-> Err("InvalidFile")]),
      Some([bytes |-> NSString \o <<1, 43, 5, 72, 101, 108, 108, 111, 134, 132>>,
            plist |-> Err("InvalidFile")]),
      Some([bytes |-> <<98, 112, 108, 105, 115, 116, 48, 48>>,
            plist |-> Ok(PDict(<<[k |-> "$objects",
                                  v |-> PArray(<<PString(<<72, 101, 121>>)>>)]>>))]) }

MessageRows == [text : Rows_text, attributed_body : Rows_attributed_body]

\* one row delivered by one listing operation
ListMessage(listing, row) ==
    /\ pc = "start"
    /\ ~call.some
    /\ LET blobs == { column.v : column \in {row.attributed_body} \ {None} }
           blob_parser == [blob \in blobs |-> extract_text_from_blob(blob)]
       IN  call' = Some([fn |-> "listing", listing |-> listing, row |-> row,
                         out |-> ListingText(listing, row, blob_parser)])
    /\ UNCHANGED <<pc, env, sockFile, sockMode, backlog, conns, nconn, cur, acceptLog,
                   acceptErr, service, client>>

NextListing == \E listing \in Listings, row \in MessageRows : ListMessage(listing, row)

SpecListing == InitCalls /\ [][NextListing]_vars

\* ------------------------------------------- db/queries.rs, db/helpers.rs
\* An i64 is wider than the integers of the checker: it is kept as a sign
\* and a magnitude in limbs of nine decimal digits.  A raw timestamp is
\* [neg, d2, d1, d0], of magnitude d2 * 10^18 + d1 * 10^9 + d0; a count of
\* seconds is [neg, hi, lo], of magnitude hi * 10^9 + lo.

\* db/queries.rs, cocoa_to_unix: 1_000_000_000
Billion == 1000000000

\* an i64 of seconds; zero has no sign
I64Secs(neg, hi, lo) == [neg |-> neg /\ (hi # 0 \/ lo # 0), hi |-> hi, lo |-> lo]

\* cocoa_ns / 1_000_000_000: i64 division truncates toward zero
div_billion(cocoa_ns) == I64Secs(cocoa_ns.neg, cocoa_ns.d2, cocoa_ns.d1)

\* a + n on i64, for 0 <= n < 10^9
add_i64(a, n) ==
    IF ~a.neg
    THEN I64Secs(FALSE, a.hi + ((a.lo + n) \div Billion), (a.lo + n) % Billion)
    ELSE IF a.hi = 0 /\ a.lo <= n THEN I64Secs(FALSE, 0, n - a.lo)
    ELSE IF a.lo >= n THEN I64Secs(TRUE, a.hi, a.lo - n)
    ELSE I64Secs(TRUE, a.hi - 1, (a.lo + Billion) - n)

\* cocoa_to_unix without the epoch offset
cocoa_to_unix_no_offset(cocoa_ns) == div_billion(cocoa_ns)

\* db/queries.rs, cocoa_to_unix
cocoa_to_unix(cocoa_ns) == add_i64(div_billion(cocoa_ns), COCOA_EPOCH_OFFSET)

\* chrono: the civil date of a day number counted from 1970-01-01
civil_from_days(z) ==
    LET zz == z + 719468
        era == zz \div 146097
        doe == zz % 146097
        yoe == (((doe - (doe \div 1460)) + (doe \div 36524)) - (doe \div 146096)) \div 365
        doy == doe - (((365 * yoe) + (yoe \div 4)) - (yoe \div 100))
        mp == ((5 * doy) + 2) \div 153
        d == (doy - (((153 * mp) + 2) \div 5)) + 1
        m == IF mp < 10 THEN mp + 3 ELSE mp - 9
        y == (yoe + (era * 400)) + (IF m <= 2 THEN 1 ELSE 0)
    IN  [year |-> y, month |-> m, day |-> d]

\* UNIX_EPOCH + Duration::from_secs(unix_ts), as a DateTime<Utc>
datetime_from_secs(unix_ts) ==
    LET t == (unix_ts.hi * 6400) + unix_ts.lo
        days == (unix_ts.hi * 11574) + (t \div 86400)
        sod == t % 86400
        date == civil_from_days(days)
    IN  [year |-> date.year, month |-> date.month, day |-> date.day,
         hour |-> sod \div 3600, minute |-> (sod % 3600) \div 60, second |-> sod % 60]

\* decimal digits, as characters
pad2(n) == <<48 + (n \div 10), 48 + (n % 10)>>

pad4(n) == pad2(n \div 100) \o pad2(n % 100)

\* chrono, DateTime<Utc>::to_rfc3339: "YYYY-MM-DDTHH:MM:SS+00:00"
to_rfc3339(dt) ==
    pad4(dt.year) \o <<45>> \o pad2(dt.month) \o <<45>> \o pad2(dt.day) \o <<84>>
    \o pad2(dt.hour) \o <<58>> \o pad2(dt.minute) \o <<58>> \o pad2(dt.second)
    \o <<43, 48, 48, 58, 48, 48>>

\* "1970-01-01T00:00:00Z"
UnixEpochString ==
    <<49, 57, 55, 48, 45, 48, 49, 45, 48, 49, 84, 48, 48, 58, 48, 48, 58, 48, 48, 90>>

\* db/helpers.rs, cocoa_to_iso
cocoa_to_iso(cocoa_ns) ==
    LET unix_ts == cocoa_to_unix(cocoa_ns)
    IN  IF unix_ts.neg THEN UnixEpochString
        ELSE to_rfc3339(datetime_from_secs(unix_ts))

\* the leap years up to and including year n
LeapYearsThrough(n) == ((n \div 4) - (n \div 100)) + (n \div 400)

IsLeapYear(y) == (y % 4 = 0 /\ y % 100 # 0) \/ y % 400 = 0

DaysInMonth(y, m) ==
    IF m = 2 THEN (IF IsLeapYear(y) THEN 29 ELSE 28)
    ELSE IF m \in {4, 6, 9, 11} THEN 30 ELSE 31

RECURSIVE DaysBeforeMonth(_, _)
DaysBeforeMonth(y, m) ==
    IF m = 1 THEN 0 ELSE DaysBeforeMonth(y, m - 1) + DaysInMonth(y, m - 1)

\* the days from January 1 of year base to a date, by counting years and months
DaysSince(base, y, m, d) ==
    (((365 * (y - base)) + (LeapYearsThrough(y - 1) - LeapYearsThrough(base - 1)))
     + DaysBeforeMonth(y, m)) + (d - 1)

\* days * 86400 + sod as a count of seconds
SecsOfDays(days, sod) ==
    LET q == (days \div 10000) * 864
        lo == (((q % 1000) * 1000000) + ((days % 10000) * 86400)) + sod
    IN  I64Secs(FALSE, (q \div 1000) + (lo \div Billion), lo % Billion)

\* the raw value of a UTC instant: nanoseconds since 2001-01-01T00:00:00Z
RawOf(i) ==
    LET secs == SecsOfDays(DaysSince(2001, i.year, i.month, i.day),
                           ((i.hour * 3600) + (i.minute * 60)) + i.second)
    IN  [neg |-> FALSE, d2 |-> secs.hi, d1 |-> secs.lo, d0 |-> i.nanos]

\* UTC instants at or after 2001-01-01T00:00:00Z whose raw value is an i64
Instants ==
    { i \in [year : {2001, 2024, 2025, 2100, 2262, 2292},
             month : {1, 2, 3, 12}, day : {1, 28, 29, 31},
             hour : {0, 12, 23}, minute : {0, 30, 59}, second : {0, 15, 59},
             nanos : {0, 999999999}] :
        /\ <<i.month, i.day>> \in {<<1, 1>>, <<2, 28>>, <<2, 29>>, <<3, 1>>, <<12, 31>>}
        /\ i.day <= DaysInMonth(i.year, i.month)
        /\ <<i.hour, i.minute, i.second>> \in {<<0, 0, 0>>, <<12, 30, 15>>, <<23, 59, 59>>} }

\* other raw values: zero, negative ones down to i64::MIN, and i64::MAX
RawValues ==
    { [neg |-> FALSE, d2 |-> 0, d1 |-> 0, d0 |-> 0],
      [neg |-> TRUE, d2 |-> 0, d1 |-> 0, d0 |-> 1],
      [neg |-> TRUE, d2 |-> 0, d1 |-> 0, d0 |-> 999999999],
      [neg |-> TRUE, d2 |-> 0, d1 |-> 1, d0 |-> 0],
      [neg |-> TRUE, d2 |-> 0, d1 |-> 1, d0 |-> 500000000],
      [neg |-> TRUE, d2 |-> 0, d1 |-> 978307199, d0 |-> 0],
      [neg |-> TRUE, d2 |-> 0, d1 |-> 978307200, d0 |-> 0],
      [neg |-> TRUE, d2 |-> 0, d1 |-> 978307200, d0 |-> 999999999],
      [neg |-> TRUE, d2 |-> 0, d1 |-> 978307201, d0 |-> 0],
      [neg |-> TRUE, d2 |-> 1, d1 |-> 0, d0 |-> 0],
      [neg |-> TRUE, d2 |-> 9, d1 |-> 223372036, d0 |-> 854775808],
      [neg |-> FALSE, d2 |-> 9, d1 |-> 223372036, d0 |-> 854775807] }

\* one direct call of cocoa_to_iso
Convert(instant, cocoa_ns) ==
    /\ pc = "start"
    /\ ~call.some
    /\ call' = Some([fn |-> "cocoa_to_iso", instant |-> instant, cocoa_ns |-> cocoa_ns,
                     unix_ts |-> cocoa_to_unix(cocoa_ns), out |-> cocoa_to_iso(cocoa_ns)])
    /\ UNCHANGED <<pc, env, sockFile, sockMode, backlog, conns, nconn, cur, acceptLog,
                   acceptErr, service, client>>

\* the raw value of an instant is converted
ConvertInstant == \E i \in Instants : Convert(Some(i), RawOf(i))

\* any other raw value is converted
ConvertRaw == \E cocoa_ns \in RawValues : Convert(None, cocoa_ns)

NextTime == ConvertInstant \/ ConvertRaw

SpecTime == InitCalls /\ [][NextTime]_vars

\* a / n as SQLite divides integers: truncated toward zero; the count of
\* whole days of a count of seconds (10^9 = 11574 * 86400 + 6400)
whole_days(secs) ==
    LET magnitude == (secs.hi * 11574) + (((secs.hi * 6400) + secs.lo) \div 86400)
    IN  IF secs.neg THEN 0 - magnitude ELSE magnitude

\* a % n as SQLite takes remainders: with the sign of a
sql_rem(a, n) == IF a < 0 THEN 0 - ((0 - a) % n) ELSE a % n

\* ANALYTICS_BUSIEST_DAY without the + 1
busiest_day_dow_unshifted(date) == sql_rem(whole_days(div_billion(date)), 7)

\* db/queries.rs, ANALYTICS_BUSIEST_DAY and ANALYTICS_BUSIEST_DAY_PHONE:
\* CAST((m.date / 1000000000 / 86400 + 1) % 7 AS INTEGER) as dow
busiest_day_dow(date) == sql_rem(whole_days(div_billion(date)) + 1, 7)

\* db/helpers.rs, day_number_to_name
day_number_to_name(day) ==
    LET DAYS == <<"Sunday", "Monday", "Tuesday", "Wednesday", "Thursday", "Friday",
                  "Saturday">>
    IN  IF day >= 0 /\ day < 7 THEN Some(DAYS[day + 1]) ELSE None

\* analytics, lines 179-191: the name of the day of the messages of one date
NameDay(instant, date) ==
    /\ pc = "start"
    /\ ~call.some
    /\ call' = Some([fn |-> "busiest_day", instant |-> instant, date |-> date,
                     dow |-> busiest_day_dow(date),
                     out |-> day_number_to_name(busiest_day_dow(date))])
    /\ UNCHANGED <<pc, env, sockFile, sockMode, backlog, conns, nconn, cur, acceptLog,
                   acceptErr, service, client>>

\* the messages of a UTC instant
NameDayOfInstant == \E i \in Instants : NameDay(Some(i), RawOf(i))

\* the messages of any other raw date
NameDayOfRaw == \E date \in RawValues : NameDay(None, date)

\* one direct call of day_number_to_name
NameDayNumber ==
    /\ pc = "start"
    /\ ~call.some
    /\ \E day \in (0 - 8)..8 :
          call' = Some([fn |-> "day_number_to_name", instant |-> None, dow |-> day,
                        out |-> day_number_to_name(day)])
    /\ UNCHANGED <<pc, env, sockFile, sockMode, backlog, conns, nconn, cur, acceptLog,
                   acceptErr, service, client>>

NextDay == NameDayOfInstant \/ NameDayOfRaw \/ NameDayNumber

SpecDay == InitCalls /\ [][NextDay]_vars

\* ------------------------------------------------------------------ claims

Conns == 1..MaxConns

\* the connections that received a response line
Answered == { c \in Conns : conns[c].rx # <<>> }

\* the response a client decodes from what it received
ResponseOf(c) == Response_from_line(conns[c].rx)

\* the id in the first line the client sent on connection c
SentId(c) == conns[c].tx[1].d.id.s

ServiceAtStart ==
    [conn |-> "chat.db", contacts |-> Contacts,
     started_at |-> "2026-01-01T00:00:00+00:00", pid |-> JUInt(4242)]

\* C1: every response written on a connection carries the id of the request
\* read on that same connection, for success and error responses alike and
\* whatever the other connections asked.
C1_ResponseEchoesRequestId ==
    \A c \in Answered :
        /\ conns[c].tx[1].k = "doc"
        /\ conns[c].tx[1].d.id.t = "str"
        /\ ResponseOf(c).id = SentId(c)
        /\ conns[c].rx[1].d.id = JStr(SentId(c))

\* C1 witness: two connections with different ids, one answered ok=true and
\* the other ok=false, each with its own id.
C1_Witness ==
    \E c, d \in Answered :
        /\ SentId(c) # SentId(d)
        /\ ResponseOf(c).ok /\ ~ResponseOf(d).ok
        /\ ResponseOf(c).id = SentId(c) /\ ResponseOf(d).id = SentId(d)

\* the number of newline-terminated lines in a stream
RECURSIVE count_nl(_, _)
count_nl(s, i) ==
    IF i > Len(s) THEN 0 ELSE (IF s[i].k = "nl" THEN 1 ELSE 0) + count_nl(s, i + 1)

\* the first line of connection c, as sent, decodes to a request
FirstLineDecodes(c) ==
    /\ conns[c].tx # <<>>
    /\ read_line(conns[c].tx).t = "Ok"
    /\ from_ndjson_line(read_line(conns[c].tx).v).t = "Ok"

\* the server has read connection c and is done with it
Handled(c) == conns[c].st = "closed" /\ conns[c].outcome # "clone_err"

\* C2: a connection whose first line decodes gets exactly one exchange: one
\* dispatch and one response line, unless the transport fails the write; then
\* the connection is closed.
C2_ExactlyOneExchange ==
    \A c \in Conns :
        Handled(c) /\ FirstLineDecodes(c) /\ conns[c].outcome # "write_err"
        => /\ conns[c].ndispatch = 1
           /\ count_nl(conns[c].rx, 1) = 1
           /\ Len(conns[c].rx) = 2

\* C3: once the server has accepted a connection, it is accepting or handling
\* a connection ever after: no request outcome ends the serve loop.
C3_ServeLoopSurvives ==
    acceptLog # <<>> => pc \in {"accepting", "reading"}

\* C4: every response has exactly one of result and error, gated by ok, on
\* the wire and after decoding the line again.
C4_ResultXorError ==
    \A c \in Answered :
        LET w == conns[c].rx[1].d
            r == ResponseOf(c)
        IN  /\ w.ok.b => (w.result # JNull /\ w.error = JNull)
            /\ ~w.ok.b => (w.error # JNull /\ w.result = JNull)
            /\ r.ok => (r.result.some /\ ~r.error.some)
            /\ ~r.ok => (r.error.some /\ ~r.result.some)
            /\ r.ok = w.ok.b

\* C4 witness: an ok=true and an ok=false response have both been decoded.
C4_Witness ==
    \E c, d \in Answered :
        /\ ResponseOf(c).ok /\ ResponseOf(c).result.some
        /\ ~ResponseOf(d).ok /\ ResponseOf(d).error.some

\* the line sent first on connection c is one JSON value with a string id
SalvageableId(c) ==
    /\ conns[c].tx # <<>>
    /\ read_line(conns[c].tx).t = "Ok"
    /\ LET body == trim(read_line(conns[c].tx).v)
       IN  Len(body) = 1 /\ body[1].k = "doc" /\ body[1].d.id.t = "str"

\* C5: a line that does not decode to a request but carries an id is answered
\* with an error response carrying that id.
C5_UndecodableLineWithIdIsAnswered ==
    \A c \in Conns :
        Handled(c) /\ SalvageableId(c) /\ ~FirstLineDecodes(c)
        => /\ conns[c].rx # <<>>
           /\ ~ResponseOf(c).ok
           /\ ResponseOf(c).id = SentId(c)

Recognized ==
    {"health", "recent", "unread", "analytics", "followup", "handles", "unknown",
     "discover", "bundle"}

\* C6: an unknown method is answered ok=false without a row-source query, and
\* with an error code that no response to a recognized method carries.
C6_UnknownMethodHasItsOwnCode ==
    \A c \in Answered :
        conns[c].req.v.method \notin Recognized
        => /\ ~ResponseOf(c).ok
           /\ conns[c].nq = 0
           /\ \A d \in Answered :
                  (conns[d].req.v.method \in Recognized /\ ~ResponseOf(d).ok)
                  => ResponseOf(d).error.v.code # ResponseOf(c).error.v.code

\* C7: a connection that ends before anything was sent is dropped silently:
\* no request, no dispatch, no response, no error line, service untouched.
C7_EmptyLineIsSilent ==
    \A c \in Conns :
        Handled(c) /\ conns[c].tx = <<>>
        => /\ conns[c].req = None
           /\ conns[c].ndispatch = 0
           /\ conns[c].nq = 0
           /\ conns[c].rx = <<>>
           /\ conns[c].err = 0
           /\ conns[c].outcome = "empty"
           /\ service = ServiceAtStart

\* C7 witness: a peer disconnected without sending and the server is back to
\* accepting.
C7_Witness ==
    \E c \in Conns :
        Handled(c) /\ conns[c].tx = <<>> /\ conns[c].eof /\ pc = "accepting"

\* C8: at most one connection is being handled; a connection is read only
\* after every earlier one is closed; connections are accepted in the order
\* they were made.
C8_OneConnectionAtATime ==
    /\ Cardinality({ c \in Conns : conns[c].st = "accepted" }) <= 1
    /\ \A c \in Conns : conns[c].st = "accepted" => (pc = "reading" /\ cur = c)
    /\ \A c, d \in Conns :
           (d < c /\ conns[c].st \in {"accepted", "closed"}) => conns[d].st = "closed"
    /\ \A i \in 1..Len(acceptLog) : acceptLog[i] = i

\* C8 witness: a second client is waiting in the accept queue, with its
\* request already sent, while the first connection is being handled.
C8_Witness ==
    /\ pc = "reading"
    /\ \E c \in Conns :
           /\ c # cur
           /\ conns[c].st = "queued"
           /\ conns[c].tx # <<>>
           /\ conns[cur].st = "accepted"

\* C9: every connection the server handles was made while the endpoint file
\* had no permission bit for group or others.
C9_EndpointOwnerOnlyWhileConnectable ==
    \A c \in Conns :
        (conns[c].st = "accepted" \/ Handled(c)) => OwnerOnly(conns[c].modeAtConnect)

\* the value under key is absent, no number, negative or fractional
Unusable(params, key) ==
    \/ key \notin DOMAIN params
    \/ params[key].t \in {"str", "bool", "null", "obj", "arr", "nint", "float"}

\* the numeric parameters of each handler and their named defaults
Defaults(method) ==
    CASE method = "recent" -> [k \in {"days", "limit"} |-> IF k = "days" THEN 7 ELSE 20]
      [] method = "unread" -> [k \in {"limit"} |-> 50]
      [] method = "analytics" -> [k \in {"days"} |-> 30]
      [] method = "followup" -> [k \in {"days", "stale"} |-> IF k = "days" THEN 30 ELSE 3]
      [] OTHER -> EmptyMap

\* params with every unusable numeric parameter of the method set to its default
WithDefaults(method, params) ==
    [k \in DOMAIN params \cup DOMAIN Defaults(method) |->
        IF k \in DOMAIN Defaults(method) /\ Unusable(params, k)
        THEN JUInt(Defaults(method)[k])
        ELSE params[k]]

\* C10: an unusable numeric parameter never fails the request: the outcome is
\* the one the request has with the named default supplied, and with the row
\* source answering it is a success.
C10_UnusableParamsTakeDefaults ==
    call.some =>
        LET e == [dbOk |-> call.v.dbOk, broken |-> {}, overflowChecks |-> env.overflowChecks, now |-> env.now]
        IN  /\ call.v.out = dispatch(service, call.v.method,
                                     WithDefaults(call.v.method, call.v.params), e)
            /\ (call.v.dbOk /\ call.v.method \in Recognized) => call.v.out.res.t = "Ok"
            /\ (call.v.method = "recent" /\ call.v.dbOk /\ Unusable(call.v.params, "days"))
               => call.v.out.res.v.m.days = JUInt(7)

\* C10 witness: followup was called with a negative days and a fractional
\* stale and succeeded.
C10_Witness ==
    /\ call.some
    /\ call.v.method = "followup"
    /\ call.v.params = [k \in {"days", "stale"} |-> IF k = "days" THEN JNInt(-5) ELSE JFloat(2, 5)]
    /\ call.v.out.res.t = "Ok"

\* C11: health succeeds whatever the row source does: it issues no query and
\* returns pid, start time, protocol version and the number of contacts.
C11_HealthNeedsNoRowSource ==
    (call.some /\ call.v.method = "health") =>
        /\ call.v.out.nq = 0
        /\ call.v.out.res.t = "Ok"
        /\ call.v.out.res.v.t = "obj"
        /\ DOMAIN call.v.out.res.v.m = {"pid", "started_at", "version", "contacts_loaded"}
        /\ call.v.out.res.v.m.pid = service.pid
        /\ call.v.out.res.v.m.started_at = JStr(service.started_at)
        /\ call.v.out.res.v.m.version = JStr("v1")
        /\ call.v.out.res.v.m.contacts_loaded = JUInt(Len(service.contacts))

\* C11 witness: health was called while the row source fails every query,
\* and succeeded.
C11_Witness ==
    /\ call.some
    /\ call.v.method = "health"
    /\ ~call.v.dbOk
    /\ call.v.out.res.t = "Ok"

\* the connections on which a health request was answered
HealthAnswered ==
    { c \in Answered : conns[c].req.some /\ conns[c].req.v.method = "health" }

\* C12: no request changes the service: handle, contacts and start time stay
\* the ones of the start, and every health response reports the same start
\* time and contact count.
C12_ServiceStateIsFrozen ==
    /\ service = ServiceAtStart
    /\ \A c \in HealthAnswered :
          /\ ResponseOf(c).ok
          /\ ResponseOf(c).result.v.m.started_at = JStr(ServiceAtStart.started_at)
          /\ ResponseOf(c).result.v.m.contacts_loaded = JUInt(Len(ServiceAtStart.contacts))

\* C12 witness: a request that failed in the dispatcher was answered, and a
\* health request after it reports the service of the start.
C12_Witness ==
    \E c \in Answered, d \in HealthAnswered :
        /\ c # d
        /\ ~ResponseOf(c).ok
        /\ acceptLog = <<c, d>>
        /\ ResponseOf(d).result.v.m.contacts_loaded = JUInt(Len(Contacts))

\* the codes the client reports for its other failure conditions
OtherFailureCodes == {"DAEMON_NOT_RUNNING", "CONNECT_FAILED", "EMPTY_RESPONSE", "PARSE_ERROR"}

\* C13: a call sends the request at most once, and when the daemon stays
\* silent for the whole timeout the call returns an error whose code is none of
\* the codes of the other failure conditions.
C13_TimeoutIsItsOwnCondition ==
    client.pc = "returned" =>
        /\ client.sends <= 1
        /\ client.silent =>
              /\ client.result.v.t = "Err"
              /\ format_client_error(client.result.v.e) \notin OtherFailureCodes

\* the decoder was called on a blob
Decoded == call.some /\ call.v.fn = "extract_text_from_blob"

\* what the keyed-archive path yields for the blob of the call: a text or nothing
KeyedText ==
    LET keyed == IF find_subsequence(call.v.blob.bytes, Bplist).some
                 THEN parse_bplist(call.v.blob.plist) ELSE Ok(None)
    IN  IF keyed.t = "Ok" THEN keyed.v ELSE None

\* C14: the decoder's result is None or a string that is not empty and has
\* no whitespace at either end; for the empty blob it is None.
C14_ResultIsNoneOrTrimmedText ==
    Decoded =>
        /\ call.v.out.t = "Ok"
        /\ call.v.out.v.some =>
              /\ call.v.out.v.v # <<>>
              /\ str_trim(call.v.out.v.v) = call.v.out.v.v
        /\ call.v.blob.bytes = <<>> => call.v.out.v = None

\* C15: decoding never panics and never returns an error; a keyed-archive
\* path that fails or finds nothing leaves the result to the stream-typed
\* path, and that one to the heuristic.
C15_DecodingNeverRaises ==
    Decoded =>
        /\ call.v.out.t = "Ok"
        /\ ~Panicked(parse_streamtyped(call.v.blob.bytes))
        /\ (call.v.blob.bytes # <<>> /\ ~KeyedText.some) =>
              call.v.out.v = IF parse_streamtyped(call.v.blob.bytes).some
                             THEN parse_streamtyped(call.v.blob.bytes)
                             ELSE extract_readable_text(call.v.blob.bytes)

\* C15 witness: a blob that ends with the '+' right after the marker was
\* decoded to nothing.
C15_Witness ==
    /\ Decoded
    /\ call.v.blob.bytes = NSString \o Plus
    /\ call.v.out = Ok(None)

\* C16: a text of the keyed-archive path is the result whatever the
\* stream-typed path finds; the stream-typed text is the result only when
\* the keyed archive yields nothing, the heuristic one only when both do.
C16_KeyedArchiveWins ==
    Decoded =>
        LET streamtyped == parse_streamtyped(call.v.blob.bytes)
        IN  /\ KeyedText.some => call.v.out = Ok(KeyedText)
            /\ (call.v.out.t = "Ok" /\ call.v.out.v.some /\ ~KeyedText.some) =>
                  IF streamtyped.some
                  THEN call.v.out.v = streamtyped
                  ELSE call.v.out.v = extract_readable_text(call.v.blob.bytes)

\* C16 witness: the keyed archive yields "Hey", the stream-typed marker of
\* the same blob yields "Hello", and the result is "Hey".
C16_Witness ==
    /\ Decoded
    /\ KeyedText = Some(<<72, 101, 121>>)
    /\ parse_streamtyped(call.v.blob.bytes) = Some(<<72, 101, 108, 108, 111>>)
    /\ call.v.out = Ok(Some(<<72, 101, 121>>))

\* the bytes hold one of the patterns that end a text
HasTerminator(bytes) == control_end(bytes, 0) < Len(bytes)

\* the blob of the call is marker + control bytes + '+' + length byte + TEXT
\* + terminator, the '+' inside the window and TEXT a trimmed, non-empty
\* string without terminator
StreamTypedShape ==
    LET p == call.v.parts
    IN  /\ find_subsequence(p.prefix, Bplist) = None
        /\ p.marker = NSString
        /\ find_subsequence(p.ctrl, Plus) = None
        /\ Len(p.marker) + Len(p.ctrl) < PlusWindow
        /\ p.plus = Plus
        /\ Len(p.len) = 1
        /\ p.text # <<>>
        /\ from_utf8(p.text).t = "Ok"
        /\ str_trim(from_utf8(p.text).v) = from_utf8(p.text).v
        /\ ~HasTerminator(p.text)
        /\ p.term # <<>>

\* C17: a blob of that shape decodes to TEXT.
C17_StreamTypedShapeDecodes ==
    (Decoded /\ StreamTypedShape) => call.v.out = Ok(Some(from_utf8(call.v.parts.text).v))

\* C17 witness: "streamtyped" + NSString + 01 94 84 01 + '+' + 05 + "Hello"
\* + 86 84 was decoded to "Hello".
C17_Witness ==
    /\ Decoded
    /\ StreamTypedShape
    /\ call.v.parts.ctrl = <<1, 148, 132, 1>>
    /\ call.v.parts.text = <<72, 101, 108, 108, 111>>
    /\ call.v.parts.term = <<134, 132>>
    /\ call.v.out = Ok(Some(<<72, 101, 108, 108, 111>>))

\* the first '+' from the marker on lies outside the window
PlusOutsideWindow(bytes, marker) ==
    LET idx == find_subsequence(bytes, marker)
    IN  /\ idx.some
        /\ find_subsequence(slice_from(bytes, idx.v), Plus).some
        /\ find_subsequence(slice_from(bytes, idx.v), Plus).v >= PlusWindow

\* the text two bytes after the first '+' from the marker on
TextTwoAfterPlus(bytes, marker) ==
    LET idx == find_subsequence(bytes, marker)
        plus == find_subsequence(slice_from(bytes, idx.v), Plus)
    IN  text_at_anchor(bytes, idx.v + plus.v + 2)

\* C20: for either marker, a '+' outside the window makes the marker yield
\* no text, and a text the marker yields starts two bytes after its '+'.
C20_PlusAnchorsOnlyInsideWindow ==
    Decoded =>
        LET bytes == call.v.blob.bytes
        IN  /\ PlusOutsideWindow(bytes, NSString) => streamtyped_nsstring(bytes) = None
            /\ PlusOutsideWindow(bytes, NSMutableString)
                  => streamtyped_nsmutablestring(bytes) = None
            /\ streamtyped_nsstring(bytes).some
                  => streamtyped_nsstring(bytes) = TextTwoAfterPlus(bytes, NSString)
            /\ streamtyped_nsmutablestring(bytes).some
                  => streamtyped_nsmutablestring(bytes) = TextTwoAfterPlus(bytes, NSMutableString)

\* a listing operation has delivered a row
Listed == call.some /\ call.v.fn = "listing"

\* the canonical text of a row: the text column when it is not empty, else
\* what the decoder makes of the blob, else the sentinel
CanonicalText(row) ==
    IF row.text.some /\ row.text.v # <<>> THEN row.text.v
    ELSE LET decoded == IF row.attributed_body.some
                        THEN ok_flatten(extract_text_from_blob(row.attributed_body.v))
                        ELSE None
         IN  IF decoded.some THEN decoded.v ELSE NotAvailable

\* the blob of a row is decodable
BlobDecodable(row) ==
    /\ row.attributed_body.some
    /\ ok_flatten(extract_text_from_blob(row.attributed_body.v)).some

\* C18: the text a listing operation (the daemon's recent and unread, the
\* command-line listings) delivers for a row is the canonical text of the
\* row, and it is not null and not empty when the blob is decodable.
C18_ListingDeliversCanonicalText ==
    Listed =>
        /\ call.v.out = Some(CanonicalText(call.v.row))
        /\ BlobDecodable(call.v.row) => call.v.out.some /\ call.v.out.v # <<>>

\* cocoa_to_iso has been called
Converted == call.some /\ call.v.fn = "cocoa_to_iso"

\* a - n on counts of seconds, for 0 <= n < 10^9
SecsMinus(a, n) ==
    IF a.neg
    THEN I64Secs(TRUE, a.hi + ((a.lo + n) \div Billion), (a.lo + n) % Billion)
    ELSE IF a.hi = 0 /\ a.lo < n THEN I64Secs(TRUE, 0, n - a.lo)
    ELSE IF a.lo >= n THEN I64Secs(FALSE, a.hi, a.lo - n)
    ELSE I64Secs(FALSE, a.hi - 1, (a.lo + Billion) - n)

\* q is raw / 10^9 rounded toward zero: raw = q * 10^9 + r with |r| < 10^9
\* and r of the sign of raw
IsTruncatedQuotient(q, raw) ==
    /\ q.hi = raw.d2
    /\ q.lo = raw.d1
    /\ q.neg = (raw.neg /\ (raw.d2 # 0 \/ raw.d1 # 0))

\* the Unix seconds of an instant, counted from 1970-01-01
UnixSecondsOf(i) ==
    SecsOfDays(DaysSince(1970, i.year, i.month, i.day),
               ((i.hour * 3600) + (i.minute * 60)) + i.second)

\* "YYYY-MM-DD" of an instant
IsoDate(i) == pad4(i.year) \o <<45>> \o pad2(i.month) \o <<45>> \o pad2(i.day)

\* C19: unix_seconds = (raw / 1_000_000_000) + 978307200 for every raw
\* value, and the raw value of an instant at or after 2001-01-01T00:00:00Z
\* converts to the ISO-8601 string of that instant, which begins with its
\* UTC date.
C19_TimestampConversion ==
    Converted =>
        /\ IsTruncatedQuotient(SecsMinus(call.v.unix_ts, 978307200), call.v.cocoa_ns)
        /\ call.v.instant.some =>
              /\ call.v.unix_ts = UnixSecondsOf(call.v.instant.v)
              /\ SubSeq(call.v.out, 1, 10) = IsoDate(call.v.instant.v)
              /\ call.v.out = to_rfc3339(call.v.instant.v)

\* the raw value of 2025-01-01T00:00:00Z, 757382400 * 10^9, was converted to
\* a string that begins 2025-01-01
C19_Witness ==
    /\ Converted
    /\ call.v.cocoa_ns = [neg |-> FALSE, d2 |-> 0, d1 |-> 757382400, d0 |-> 0]
    /\ call.v.instant.some
    /\ call.v.instant.v.year = 2025
    /\ SubSeq(call.v.out, 1, 10) = <<50, 48, 50, 53, 45, 48, 49, 45, 48, 49>>

\* parse_bplist has been called
Parsed == call.some /\ call.v.fn = "parse_bplist"

\* a string of whitespace only
Blank(s) == \A i \in 1..Len(s) : is_whitespace(s[i])

\* a string that is not blank, without the whitespace at its ends
Trimmed(s) ==
    LET inked == { i \in 1..Len(s) : ~is_whitespace(s[i]) }
    IN  SubSeq(s, CHOOSE i \in inked : \A j \in inked : i <= j,
                  CHOOSE i \in inked : \A j \in inked : j <= i)

\* the candidates one value of the object table gives: a plain string that
\* starts with neither "NS" nor "$", the NS.string of a dictionary, the
\* NS.bytes of a dictionary when they are UTF-8
CandidatesOf(obj) ==
    IF obj.p = "string"
    THEN IF (Len(obj.s) >= 2 /\ obj.s[1] = 78 /\ obj.s[2] = 83)
            \/ (Len(obj.s) >= 1 /\ obj.s[1] = 36)
         THEN <<>> ELSE <<obj.s>>
    ELSE IF obj.p = "dict"
    THEN LET wrapped == { i \in 1..Len(obj.e) : obj.e[i].k = "NS.string" /\ obj.e[i].v.p = "string" }
             payload == { i \in 1..Len(obj.e) :
                            /\ obj.e[i].k = "NS.bytes"
                            /\ obj.e[i].v.p = "data"
                            /\ from_utf8(obj.e[i].v.bytes).t = "Ok" }
         IN  (IF wrapped = {} THEN <<>> ELSE <<obj.e[CHOOSE i \in wrapped : TRUE].v.s>>)
             \o (IF payload = {} THEN <<>>
                 ELSE <<from_utf8(obj.e[CHOOSE i \in payload : TRUE].v.bytes).v>>)
    ELSE <<>>

\* the object table of a parsed value: its $objects array, if it is a
\* mapping that has one
ObjectTable(parsed) ==
    IF parsed.t = "Ok" /\ parsed.v.p = "dict"
       /\ \E i \in 1..Len(parsed.v.e) : parsed.v.e[i].k = "$objects" /\ parsed.v.e[i].v.p = "array"
    THEN Some(parsed.v.e[CHOOSE i \in 1..Len(parsed.v.e) : parsed.v.e[i].k = "$objects"].v.a)
    ELSE None

\* the places <<i, j>> of the candidates of a table that are not blank
Substantial(table) ==
    { p \in (1..Len(table)) \X (1..2) :
        /\ p[2] <= Len(CandidatesOf(table[p[1]]))
        /\ ~Blank(CandidatesOf(table[p[1]])[p[2]]) }

\* the scan of the top-level mapping values
TopLevelScan(parsed) ==
    LET e == parsed.v.e
        hits == { i \in 1..Len(e) :
                    /\ e[i].v.p = "string"
                    /\ e[i].v.s # <<>>
                    /\ ~(Len(e[i].v.s) >= 2 /\ e[i].v.s[1] = 78 /\ e[i].v.s[2] = 83) }
    IN  IF hits = {} THEN None ELSE Some(e[CHOOSE i \in hits : \A j \in hits : i <= j].v.s)

\* C21: for a mapping with an object table, parse_bplist returns the trimmed
\* form of the first candidate in table order that is not blank; only when
\* the table has none does it return what the scan of the top-level mapping
\* values finds.
C21_FirstCandidateInTableOrder ==
    (Parsed /\ ObjectTable(call.v.parsed).some) =>
        LET table == ObjectTable(call.v.parsed).v
            hits == Substantial(table)
        IN  IF hits # {}
            THEN LET first == CHOOSE p \in hits :
                                \A q \in hits : p[1] < q[1] \/ (p[1] = q[1] /\ p[2] <= q[2])
                 IN  call.v.out = Ok(Some(Trimmed(CandidatesOf(table[first[1]])[first[2]])))
            ELSE call.v.out = Ok(TopLevelScan(call.v.parsed))

\* a table whose first value is denylisted and whose second holds a blank
\* NS.string and the NS.bytes " B" gave "B", although the mapping has a title
C21_Witness ==
    /\ Parsed
    /\ ObjectTable(call.v.parsed).some
    /\ Len(ObjectTable(call.v.parsed).v) = 2
    /\ ObjectTable(call.v.parsed).v[1] = PString(<<36, 110, 117, 108, 108>>)
    /\ Len(CandidatesOf(ObjectTable(call.v.parsed).v[2])) = 2
    /\ TopLevelScan(call.v.parsed).some
    /\ call.v.out = Ok(Some(<<66>>))

\* extract_readable_text has been called
ReadCalled == call.some /\ call.v.fn = "extract_readable_text"

\* s from the first to the last of the places in keep
Between(s, keep) ==
    IF keep = {} THEN <<>>
    ELSE SubSeq(s, CHOOSE i \in keep : \A j \in keep : i <= j,
                   CHOOSE i \in keep : \A j \in keep : j <= i)

\* a run without the '+' at its ends, and then without the whitespace at
\* its ends
CleanedRun(run) ==
    LET no_plus == Between(run, { i \in 1..Len(run) : run[i] # 43 })
    IN  Between(no_plus, { i \in 1..Len(no_plus) : ~is_whitespace(no_plus[i]) })

Printable(ch) == ch \in 32..126

\* the maximal runs of printable ASCII of a text, as <<first, last>>
MaximalRuns(text) ==
    { r \in (1..Len(text)) \X (1..Len(text)) :
        /\ r[1] <= r[2]
        /\ \A i \in r[1]..r[2] : Printable(text[i])
        /\ r[1] = 1 \/ ~Printable(text[r[1] - 1])
        /\ r[2] = Len(text) \/ ~Printable(text[r[2] + 1]) }

\* some place of run holds pattern
Contains(run, pattern) ==
    \E i \in 0..(Len(run) - Len(pattern)) : SubSeq(run, i + 1, i + Len(pattern)) = pattern

\* the maximal runs that qualify
QualifyingRuns(text) ==
    { r \in MaximalRuns(text) :
        LET run == SubSeq(text, r[1], r[2])
        IN  /\ Len(run) >= 3
            /\ ~(\E p \in skip_patterns : Contains(run, p))
            /\ Len(CleanedRun(run)) >= 2 }

\* C22: extract_readable_text returns the cleaned form of the qualifying
\* run whose cleaned form is longest, of the earliest of them when several
\* are that long, and None when no run qualifies.
C22_LongestRunEarliestOnTies ==
    ReadCalled =>
        LET text == from_utf8_lossy(call.v.blob)
            runs == QualifyingRuns(text)
            cleaned(r) == CleanedRun(SubSeq(text, r[1], r[2]))
        IN  IF runs = {} THEN call.v.out = None
            ELSE \E r \in runs :
                    /\ call.v.out = Some(cleaned(r))
                    /\ \A q \in runs :
                          \/ Len(cleaned(q)) < Len(cleaned(r))
                          \/ Len(cleaned(q)) = Len(cleaned(r)) /\ r[1] <= q[1]

\* "xyz", "abc" and "ab" between control bytes: of the two longest runs the
\* earlier one is returned
C22_Witness ==
    /\ ReadCalled
    /\ call.v.blob = <<120, 121, 122, 1, 97, 98, 99, 1, 97, 98>>
    /\ call.v.out = Some(<<120, 121, 122>>)

\* a Message has been made of a row
Normalized == call.some /\ call.v.fn = "message_kind"

\* the naming convention of group rooms: "chat" and then digits only, or a
\* comma anywhere
GroupByName(id) ==
    \/ /\ Len(id) >= 4
       /\ <<id[1], id[2], id[3], id[4]>> = <<99, 104, 97, 116>>
       /\ \A i \in 5..Len(id) : id[i] \in 48..57
    \/ \E i \in 1..Len(id) : id[i] = 44

\* C23: a Message is flagged as group exactly when its room identifier is
\* present and follows the naming convention; its group id is present
\* exactly when the flag is set, and is then the room identifier.
C23_ConversationKind ==
    Normalized =>
        LET room == call.v.cache_roomnames
            message == call.v.out
        IN  /\ message.is_group_chat = (room.some /\ GroupByName(room.v))
            /\ message.group_id.some = message.is_group_chat
            /\ message.is_group_chat => message.group_id = room

\* "xchat12a,+1555" is no "chat" room but holds a comma: a group, with the
\* room identifier as its id
C23_Witness ==
    /\ Normalized
    /\ call.v.cache_roomnames
         = Some(<<120, 99, 104, 97, 116, 49, 50, 97, 44, 43, 49, 53, 53, 53>>)
    /\ call.v.out.is_group_chat
    /\ call.v.out.group_id = call.v.cache_roomnames

\* a bundle request has been dispatched
Bundled == call.some /\ call.v.method = "bundle"

\* the include string a bundle request goes by: the parameter when it is a
\* string, "unread_count,recent" otherwise
IncludeOf(params) ==
    IF "include" \in DOMAIN params /\ params["include"].t = "str"
    THEN params["include"].s
    ELSE <<117, 110, 114, 101, 97, 100, 95, 99, 111, 117, 110, 116, 44,
           114, 101, 99, 101, 110, 116>>

\* name, with whitespace only around it, is one of the comma-separated
\* items of include
Lists(include, name) ==
    \E first \in 1..(Len(include) + 1), last \in 0..Len(include) :
        /\ first = 1 \/ include[first - 1] = 44
        /\ last = Len(include) \/ include[last + 1] = 44
        /\ \A i \in first..last : include[i] # 44
        /\ \E a \in first..last :
              /\ a + Len(name) - 1 <= last
              /\ SubSeq(include, a, a + Len(name) - 1) = name
              /\ \A i \in (first..(a - 1)) \cup ((a + Len(name))..last) :
                    is_whitespace(include[i])

\* the recognized sections: the key of the result and the name in include
RecognizedSections ==
    { <<"unread_count", SectionUnreadCount>>, <<"recent", SectionRecent>>,
      <<"analytics", SectionAnalytics>>, <<"followup_count", SectionFollowupCount>> }

\* C24: the result of bundle is an object whose keys are exactly the
\* recognized section names listed in include, whitespace around a name
\* aside; other names are passed over, a name listed twice gives one key,
\* and an include that is absent or no string counts as
\* "unread_count,recent".
C24_BundleKeysAreListedSections ==
    (Bundled /\ call.v.out.res.t = "Ok") =>
        /\ call.v.out.res.v.t = "obj"
        /\ DOMAIN call.v.out.res.v.m
             = { s[1] : s \in { r \in RecognizedSections :
                                  Lists(IncludeOf(call.v.params), r[2]) } }

\* "\tanalytics\n,followup_count" answered with both sections
C24_Witness ==
    /\ Bundled
    /\ "include" \in DOMAIN call.v.params
    /\ call.v.params["include"]
         = JStr(<<9, 97, 110, 97, 108, 121, 116, 105, 99, 115, 10, 44, 102, 111, 108, 108,
                  111, 119, 117, 112, 95, 99, 111, 117, 110, 116>>)
    /\ call.v.out.res.t = "Ok"
    /\ DOMAIN call.v.out.res.v.m = {"analytics", "followup_count"}

\* a day has been named
DayNamed == call.some /\ call.v.fn \in {"busiest_day", "day_number_to_name"}

\* the day of the week of a date of the Gregorian calendar, by Zeller's
\* congruence: 0 is Saturday, 1 Sunday, ..., 6 Friday
Zeller(y, m, d) ==
    LET mm == IF m <= 2 THEN m + 12 ELSE m
        yy == IF m <= 2 THEN y - 1 ELSE y
        K == yy % 100
        J == yy \div 100
    IN  (((((d + ((13 * (mm + 1)) \div 5)) + K) + (K \div 4)) + (J \div 4)) + (5 * J)) % 7

WeekdayName(y, m, d) ==
    <<"Saturday", "Sunday", "Monday", "Tuesday", "Wednesday", "Thursday", "Friday">>
        [Zeller(y, m, d) + 1]

\* C25: the day index of a date is (whole days since 2001-01-01 + 1) mod 7,
\* named with 0 = Sunday ... 6 = Saturday; for every instant at or after
\* 2001-01-01T00:00:00Z the name is the UTC weekday of the instant; an
\* index outside 0..6 has no name.
C25_BusiestDayIsUtcWeekday ==
    DayNamed =>
        /\ call.v.instant.some =>
              LET i == call.v.instant.v
              IN  /\ call.v.dow = (DaysSince(2001, i.year, i.month, i.day) + 1) % 7
                  /\ call.v.out = Some(WeekdayName(i.year, i.month, i.day))
        /\ call.v.dow \in 0..6 =>
              call.v.out = Some(<<"Sunday", "Monday", "Tuesday", "Wednesday", "Thursday",
                                  "Friday", "Saturday">>[call.v.dow + 1])
        /\ call.v.dow \notin 0..6 => call.v.out = None

\* 2024-02-29T12:30:15Z was a Thursday
C25_Witness ==
    /\ DayNamed
    /\ call.v.instant.some
    /\ <<call.v.instant.v.year, call.v.instant.v.month, call.v.instant.v.day>> = <<2024, 2, 29>>
    /\ call.v.instant.v.hour = 12
    /\ call.v.dow = 4
    /\ call.v.out = Some("Thursday")

\* a request that computes the stale threshold has been dispatched: a
\* followup, or a bundle with followup_count that reaches this section
ComputesThreshold ==
    /\ call.some
    /\ call.v.method \in {"followup", "bundle"}
    /\ call.v.method = "bundle" =>
          /\ Lists(IncludeOf(call.v.params), SectionFollowupCount)
          /\ call.v.out.res.t = "Err" =>
                call.v.out.res.e.sqlite \in {"FOLLOWUP_UNANSWERED_QUESTIONS",
                                             "FOLLOWUP_STALE_CONVERSATIONS"}

\* the stale value the request is taken to carry: the parameter when it is
\* a non-negative integer (3 otherwise), reduced to 32 bits, which leaves
\* every value of StaleValues as it is
StaleOf(method, params) ==
    LET key == IF method = "bundle" THEN "followup_stale" ELSE "stale"
    IN  IF key \in DOMAIN params /\ params[key].t = "uint"
        THEN params[key].n ELSE 3

\* the stale threshold that the statements of an answered request were given
ThresholdGiven ==
    IF call.v.method = "bundle"
    THEN call.v.out.res.v.m["followup_count"][1].len.args[2]
    ELSE call.v.out.res.v.m.total_items[1].len.args[2]

\* C27: whatever stale value a request carries, the stale threshold is
\* stale * 86400 * 10^9 nanoseconds, computed within i64: the request does
\* not panic and its statements are not given a wrapped threshold.
C27_StaleThresholdFitsI64 ==
    ComputesThreshold =>
        /\ call.v.out.res.t # "Panic"
        /\ call.v.out.res.t = "Ok" =>
              /\ ThresholdGiven.days = StaleOf(call.v.method, call.v.params)
              /\ ~ThresholdGiven.wrapped

\* the statements a section runs
StatementsOf(key) ==
    CASE key = "unread_count" -> {"UNREAD_MESSAGES"}
      [] key = "recent" -> {"RECENT_MESSAGES"}
      [] key = "analytics" -> {"ANALYTICS_MESSAGE_COUNTS"}
      [] key = "followup_count" -> {"FOLLOWUP_UNANSWERED_QUESTIONS",
                                    "FOLLOWUP_STALE_CONVERSATIONS"}

\* the row source fails on a statement of a recognized section that the
\* request lists
ListedSectionFails ==
    \E r \in RecognizedSections :
        /\ Lists(IncludeOf(call.v.params), r[2])
        /\ StatementsOf(r[1]) \cap call.v.broken # {}

Analysed == call.some /\ call.v.method = "analytics"

\* two characters that are one letter in either case (ASCII and Latin-1)
SameLetter(x, y) ==
    \/ x = y
    \/ \E upper \in (65..90) \cup (192..214) \cup (216..222) : {x, y} = {upper, upper + 32}

\* two names that are equal, case aside
SameName(a, b) == Len(a) = Len(b) /\ \A i \in 1..Len(a) : SameLetter(a[i], b[i])

\* the contacts, as places of the table, that the contact of a request names
Named(params) ==
    IF "contact" \in DOMAIN params /\ params["contact"].t = "str"
    THEN { i \in 1..Len(service.contacts) :
             SameName(service.contacts[i].name, params["contact"].s) }
    ELSE {}

\* params without its contact
WithoutContact(params) == [k \in DOMAIN params \ {"contact"} |-> params[k]]

\* C29: an analytics request whose contact names no contact (equal names,
\* case aside) is answered as the same request without contact: from all
\* senders, top contacts included, and with no error of its own; a contact
\* that names one restricts every statement to the phone of the first such
\* contact and leaves the top contacts empty.
C29_UnmatchedContactMeansAllSenders ==
    Analysed =>
        LET params == call.v.params
            out == call.v.out
            e == [dbOk |-> TRUE, broken |-> call.v.broken,
                  overflowChecks |-> env.overflowChecks, now |-> env.now]
            first == CHOOSE i \in Named(params) : \A j \in Named(params) : i <= j
            to == IF Named(params) = {} THEN None
                  ELSE Some(service.contacts[first].phone)
        IN  /\ Named(params) = {} =>
                  out = dispatch(service, "analytics", WithoutContact(params), e)
            /\ out.res.t = "Ok" =>
                  /\ out.res.v.m.counts.args[2] = to
                  /\ out.res.v.m.busiest_hour.args[2] = to
                  /\ out.res.v.m.busiest_day.args[2] = to
                  /\ out.res.v.m.attachment_count.args[2] = to
                  /\ out.res.v.m.reaction_count.args[2] = to
                  /\ (Named(params) = {})
                       = (out.res.v.m.top_contacts.rows # <<>>
                          /\ out.res.v.m.top_contacts.rows.q = "ANALYTICS_TOP_CONTACTS")
                  /\ Named(params) # {} => out.res.v.m.top_contacts.rows = <<>>

\* "Alic" names no contact: all senders, top contacts asked for
C29_Witness ==
    /\ Analysed
    /\ "contact" \in DOMAIN call.v.params
    /\ call.v.params["contact"] = JStr(<<65, 108, 105, 99>>)
    /\ call.v.out.res.t = "Ok"
    /\ call.v.out.res.v.m.counts.args[2] = None
    /\ call.v.out.res.v.m.top_contacts.rows.q = "ANALYTICS_TOP_CONTACTS"

\* rows have been enriched
Enriched == call.some /\ call.v.fn = "enrich"

\* the ASCII digits of a string, in order
DigitsOf(s) ==
    LET places == { i \in 1..Len(s) : s[i] \in 48..57 }
        before(i) == Cardinality({ j \in places : j < i })
    IN  [k \in 1..Cardinality(places) |-> s[CHOOSE i \in places : before(i) = k - 1]]

\* the contacts, as places of the table, with the digits of a handle
SameDigits(contacts, phone) ==
    { i \in 1..Len(contacts) : DigitsOf(contacts[i].phone) = DigitsOf(phone) }

\* C28: a row gets the name of the first contact, in load order, whose
\* phone has the ASCII digits of the row's handle, and no name when there
\* is none; so rows whose handles have the same digits, those without any
\* digit among them, get the same name.
C28_EnrichmentByDigitEquality ==
    Enriched =>
        LET contacts == call.v.contacts
            out == call.v.out
        IN  /\ \A n \in 1..Len(out) :
                  LET same == SameDigits(contacts, out[n].phone)
                  IN  out[n].contact_name
                        = IF same = {} THEN None
                          ELSE Some(contacts[CHOOSE i \in same : \A j \in same : i <= j].name)
            /\ DigitsOf(out[1].phone) = DigitsOf(out[2].phone)
                  => out[1].contact_name = out[2].contact_name
            /\ \A n \in 1..Len(out) :
                  /\ call.v.handles[n].some => out[n].phone = call.v.handles[n].v
                  /\ ~call.v.handles[n].some => DigitsOf(out[n].phone) = <<>>

\* a row without handle and the row of x@y.z both get the name of the first
\* contact whose phone has no digit
C28_Witness ==
    /\ Enriched
    /\ call.v.contacts = Contacts
    /\ call.v.handles = <<None, Some(<<120, 64, 121, 46, 122>>)>>
    /\ call.v.out[1].contact_name = Some(<<90, 111, 203>>)
    /\ call.v.out[2].contact_name = Some(<<90, 111, 203>>)

\* connection c holds a whole line from its client
SentLine(c) == \E i \in 1..Len(conns[c].tx) : conns[c].tx[i].k = "nl"

\* the client of connection c has ended or closed its stream
Disconnected(c) == conns[c].eof \/ conns[c].hungup

\* the server is done with connection c, or the process has ended and its
\* sockets with it
ServedOrClosed(c) == conns[c].st = "closed" \/ pc = "panicked"

\* while the client of the connection being read has neither sent a line
\* nor disconnected, the server stays in this read: it accepts nothing and
\* no pending connection leaves the queue
BlockedInRead ==
    [][(pc = "reading" /\ ~SentLine(cur) /\ ~Disconnected(cur))
          => /\ pc' = "reading"
             /\ cur' = cur
             /\ acceptLog' = acceptLog
             /\ SubSeq(backlog', 1, Len(backlog)) = backlog
             /\ \A c \in Conns : conns[c].st = "queued" =>
                   conns'[c].st = "queued" /\ conns'[c].rx = <<>>]_vars

\* every accepted client sends a line or disconnects in the end: none
\* stays accepted for ever without a line and without disconnecting
ClientsSendOrDisconnect ==
    \A c \in Conns : []<>(conns[c].st # "accepted" \/ SentLine(c) \/ Disconnected(c))

\* every client whose response the server is writing reads or closes its
\* stream in the end
ClientsReadOrHangUp ==
    \A c \in Conns : []<>(~(pc = "writing" /\ cur = c) \/ conns[c].reads \/ conns[c].hungup)

\* every connected client is served or closed in the end: none stays
\* pending or accepted for ever
EveryClientServedOrClosed ==
    \A c \in Conns : []<>(conns[c].st \notin {"queued", "accepted"} \/ ServedOrClosed(c))

\* C26 as stated: the server stays blocked in its read while the client
\* neither sends a line nor disconnects, so that no later connection is
\* served; and if every accepted client sends a line or disconnects in the
\* end, every connected client is served or closed in the end.
C26_AsStated == BlockedInRead /\ (ClientsSendOrDisconnect => EveryClientServedOrClosed)

\* C26: the server stays blocked in its read while the client neither
\* sends a line nor disconnects, so that no later connection is served; and
\* if every accepted client sends a line or disconnects in the end, and
\* every client that is being answered reads or closes its stream in the
\* end, every connected client is served or closed in the end.
C26_NoTimeoutOnReadOrWrite ==
    BlockedInRead /\ ((ClientsSendOrDisconnect /\ ClientsReadOrHangUp) => EveryClientServedOrClosed)

\* the server waits for the line of a silent first client while a second
\* client, whose request is complete, waits in the queue
C26_Witness ==
    /\ pc = "reading"
    /\ cur = 1
    /\ ~SentLine(1)
    /\ ~Disconnected(1)
    /\ conns[2].st = "queued"
    /\ SentLine(2)
    /\ conns[2].rx = <<>>

====
